---- MODULE Spec2Model ----
(***************************************************************************)
(* Commit-analysis pipeline of code-lens:                                  *)
(*   GET /api/repos/[owner]/[repo]/commits/[sha]/analysis  (route.ts)      *)
(*   generateAnalysis, the analysis cache helpers, createCompletion.       *)
(*                                                                         *)
(* Texts (diff lines, model output, JSON string values) are sequences of   *)
(* lexical tokens; a diff is the sequence of its lines (diff.split("\n")). *)
(* JavaScript values are tagged records, so that undefined, null, strings, *)
(* numbers, arrays and objects stay distinct.                              *)
(***************************************************************************)
EXTENDS Integers, Sequences, FiniteSets, TLC

VARIABLES
    prismaUp,     \* the prisma client import is non-null
    apiKey,       \* process.env.NEXT_PUBLIC_ANTHROPIC_API_KEY is set
    commitTable,  \* rows of CommitAnalysis
    repoTable,    \* rows of Repository
    cacheTable,   \* rows of AnalysisCache
    clock,        \* new Date() at the last cache insert
    nextId,       \* next cuid() of CommitAnalysis
    req,          \* per request: position in GET / generateAnalysis and its locals
    last,         \* the response of the previous completed request (observer)
    sim,          \* a call of the similarity helpers on its own: arguments and results
    call          \* a call of a response or diff helper on its own: argument and result

vars == <<prismaUp, apiKey, commitTable, repoTable, cacheTable, clock, nextId, req, last, sim, call>>

-----------------------------------------------------------------------------
(* JavaScript values *)

Undef == [t |-> "undefined"]
Null == [t |-> "null"]
Num(n) == [t |-> "number", n |-> n]
Str(s) == [t |-> "string", s |-> s]
Arr(a) == [t |-> "array", a |-> a]
Obj(o) == [t |-> "object", o |-> o]

\* a one-token string
S(tok) == Str(<<tok>>)

IsStr(v) == v.t = "string"
IsArr(v) == v.t = "array"
IsObj(v) == v.t = "object"

\* v.name : property read (undefined for a missing key and for non-objects)
Get(v, name) ==
    IF IsObj(v) /\ name \in DOMAIN v.o THEN v.o[name] ELSE Undef

\* v?.name
OptGet(v, name) ==
    IF v.t \in {"undefined", "null"} THEN Undef ELSE Get(v, name)

\* ToBoolean(v)
Truthy(v) ==
    /\ v.t \notin {"undefined", "null"}
    /\ ~(IsStr(v) /\ v.s = <<>>)
    /\ ~(v.t = "number" /\ v.n = 0)

\* a || b
OrElse(a, b) == IF Truthy(a) THEN a ELSE b

-----------------------------------------------------------------------------
(* Token texts *)

StartsWith(s, p) == Len(s) >= Len(p) /\ SubSeq(s, 1, Len(p)) = p

Includes(s, p) ==
    \E i \in 1..(Len(s) - Len(p) + 1) : SubSeq(s, i, i + Len(p) - 1) = p

WS == {" ", "  ", "\n"}

RECURSIVE TrimStart(_)
TrimStart(s) ==
    IF s # <<>> /\ Head(s) \in WS THEN TrimStart(Tail(s)) ELSE s

RECURSIVE TrimEnd(_)
TrimEnd(s) ==
    IF s # <<>> /\ s[Len(s)] \in WS THEN TrimEnd(SubSeq(s, 1, Len(s) - 1)) ELSE s

Trim(s) == TrimEnd(TrimStart(s))

\* indices of the occurrences of token tok in s
Positions(s, tok) == {i \in 1..Len(s) : s[i] = tok}

Min(set) == CHOOSE m \in set : \A k \in set : m <= k
Max(set) == CHOOSE m \in set : \A k \in set : m >= k

-----------------------------------------------------------------------------
(* Schemas and the default analysis *)

ChangeTypes == {"Feature", "Refactor", "Logic", "Chore", "Cleanup", "Config"}

GraphTD == "graph TD"

AllStrings(a) == \A i \in 1..Len(a) : IsStr(a[i])

\* the keys of v that a z.object with these keys keeps (unknown keys are stripped,
\* an optional key that is undefined is left out)
Strip(v, keys) ==
    LET kept == {k \in keys : Get(v, k) # Undef}
    IN  Obj([k \in kept |-> Get(v, k)])

CodeChangeKeys == {"type", "file", "lines", "summary", "codeSnippet", "explanation"}

CodeChangeSchema(v) ==
    /\ IsObj(v)
    /\ IsStr(Get(v, "type")) /\ Get(v, "type").s \in {<<ty>> : ty \in ChangeTypes}
    /\ IsStr(Get(v, "file"))
    /\ IsStr(Get(v, "lines"))
    /\ IsStr(Get(v, "summary"))
    /\ \/ Get(v, "codeSnippet") = Undef
       \/ IsArr(Get(v, "codeSnippet")) /\ AllStrings(Get(v, "codeSnippet").a)
    /\ IsStr(Get(v, "explanation"))

ArchitectureDiagramSchema(v) ==
    /\ IsObj(v)
    /\ IsStr(Get(v, "diagram")) /\ StartsWith(Get(v, "diagram").s, <<GraphTD>>)
    /\ IsStr(Get(v, "explanation"))

ReactConceptSchema(v) ==
    /\ IsObj(v)
    /\ IsStr(Get(v, "concept"))
    /\ IsArr(Get(v, "codeSnippet")) /\ AllStrings(Get(v, "codeSnippet").a)
    /\ IsStr(Get(v, "explanation"))

AnalysisSchema(v) ==
    /\ IsObj(v)
    /\ IsArr(Get(v, "codeChanges"))
    /\ \A i \in 1..Len(Get(v, "codeChanges").a) : CodeChangeSchema(Get(v, "codeChanges").a[i])
    /\ ArchitectureDiagramSchema(Get(v, "architectureDiagram"))
    /\ ReactConceptSchema(Get(v, "reactConcept"))

\* the value AnalysisSchema.parse returns for a value that satisfies the schema
SchemaOutput(v) ==
    LET cc == Get(v, "codeChanges").a
    IN  Obj([codeChanges |-> Arr([i \in 1..Len(cc) |-> Strip(cc[i], CodeChangeKeys)]),
             architectureDiagram |->
                 Strip(Get(v, "architectureDiagram"), {"diagram", "explanation"}),
             reactConcept |->
                 Strip(Get(v, "reactConcept"), {"concept", "codeSnippet", "explanation"})])

DEFAULT_ANALYSIS ==
    Obj([codeChanges |-> Arr(<<
             Obj([type |-> S("Chore"),
                  file |-> S("unknown"),
                  lines |-> S("0-0"),
                  summary |-> S("No changes detected"),
                  explanation |-> S("No analysis available")])>>),
         architectureDiagram |->
             Obj([diagram |-> Str(<<GraphTD, "\n", "  A[No Analysis] --> B[Try Again]",
                                    "\n", "  B --> A">>),
                  explanation |-> S("No architecture diagram available")]),
         reactConcept |->
             Obj([concept |-> S("None"),
                  codeSnippet |-> Arr(<<S("0: // No code snippet available"),
                                        S("1: // Please try regenerating the analysis")>>),
                  explanation |-> S("No React concept analysis available")])])

-----------------------------------------------------------------------------
(* generateAnalysis: the line filter *)

\* the predicate of diff.split("\n").filter(...): TRUE when the line is kept
KeepLine(line) ==
    /\ ~Includes(line, <<"package-lock.json">>)
    /\ ~(Includes(line, <<"/dist/">>) \/ Includes(line, <<"/build/">>))
    /\ ~(Includes(line, <<".test.">>) \/ Includes(line, <<".spec.">>))
    /\ ~(Trim(line) = <<"+">> \/ Trim(line) = <<"-">>)
    /\ ~(StartsWith(Trim(line), <<"+", " ", "//">>) \/ StartsWith(Trim(line), <<"-", " ", "//">>))

FilterDiff(diff) == SelectSeq(diff, KeepLine)

\* lines.join("\n") is the empty string
JoinIsEmpty(lines) == lines = <<>> \/ lines = << <<>> >>

\* crypto.createHash("md5").update(diff).digest("hex"): one digest per text
generateDiffHash(diff) == <<"md5", diff>>

-----------------------------------------------------------------------------
(* Diff signatures and similarity *)

PlusMinus == {"+", "-", "+++", "---"}

Keywords == {"function ", "class ", "interface ", "type ", "enum "}

Identifiers == {"foo", "bar", "baz", "App", "x", "y"}

\* line.split(" b/")[1]
AfterB(line) ==
    LET ps == Positions(line, " b/")
    IN  IF ps = {} THEN Undef
        ELSE LET from == Min(ps)
                 rest == {i \in ps : i > from}
                 to == IF rest = {} THEN Len(line) ELSE Min(rest) - 1
             IN  Str(SubSeq(line, from + 1, to))

IsHeader(line) == StartsWith(line, <<"diff --git">>)

IsChange(line) == ~IsHeader(line) /\ line # <<>> /\ Head(line) \in PlusMinus

\* line.match(/^[+-].*?(function|class|interface|type|enum)\s+\w+/)
IsDeclaration(line) ==
    \E i \in 2..(Len(line) - 1) : line[i] \in Keywords /\ line[i + 1] \in Identifiers

\* line.replace(/^[+-]/, "").trim()
StripSign(line) ==
    Trim(IF Head(line) = "+++" THEN <<"++">> \o Tail(line)
         ELSE IF Head(line) = "---" THEN <<"--">> \o Tail(line)
         ELSE Tail(line))

generateDiffSignature(diff) ==
    LET changes == {i \in 1..Len(diff) : IsChange(diff[i])}
        kinds == {"import ", "function ", "class ", "interface ", "const "}
    IN  [files |-> {AfterB(diff[i]) : i \in {j \in 1..Len(diff) : IsHeader(diff[j])}},
         changeTypes |-> {k \in kinds : \E i \in changes : Includes(diff[i], <<k>>)},
         changeCount |-> Cardinality(changes),
         mainChanges |-> {StripSign(diff[i]) : i \in {j \in changes : IsDeclaration(diff[j])}}]

\* a JavaScript number that is either NaN or the fraction num/den
NaN == [nan |-> TRUE, num |-> 0, den |-> 1]
Frac(n, d) == IF d = 0 THEN NaN ELSE [nan |-> FALSE, num |-> n, den |-> d]

Greater(a, b) == ~a.nan /\ ~b.nan /\ a.num * b.den > b.num * a.den

MaxOf(a, b) == IF a >= b THEN a ELSE b
Abs(a) == IF a >= 0 THEN a ELSE 0 - a

\* calculateDiffSimilarity dividing by the sizes of sig1 instead of the larger side
calculateDiffSimilarityBySig1(sig1, sig2) ==
    LET f == Frac(Cardinality(sig1.files \cap sig2.files), Cardinality(sig1.files))
        ty == Frac(Cardinality(sig1.changeTypes \cap sig2.changeTypes),
                   Cardinality(sig1.changeTypes))
        c == Frac(sig1.changeCount - Abs(sig1.changeCount - sig2.changeCount),
                  sig1.changeCount)
        m == Frac(Cardinality(sig1.mainChanges \cap sig2.mainChanges),
                  Cardinality(sig1.mainChanges))
    IN  IF f.nan \/ ty.nan \/ c.nan \/ m.nan THEN NaN
        ELSE Frac(3 * f.num * ty.den * c.den * m.den
                    + 2 * ty.num * f.den * c.den * m.den
                    + 2 * c.num * f.den * ty.den * m.den
                    + 3 * m.num * f.den * ty.den * c.den,
                  10 * f.den * ty.den * c.den * m.den)

calculateDiffSimilarity(sig1, sig2) ==
    LET fileSimilarity ==
            Frac(Cardinality(sig1.files \cap sig2.files),
                 MaxOf(Cardinality(sig1.files), Cardinality(sig2.files)))
        typeSimilarity ==
            Frac(Cardinality(sig1.changeTypes \cap sig2.changeTypes),
                 MaxOf(Cardinality(sig1.changeTypes), Cardinality(sig2.changeTypes)))
        countMax == MaxOf(sig1.changeCount, sig2.changeCount)
        countSimilarity ==
            Frac(countMax - Abs(sig1.changeCount - sig2.changeCount), countMax)
        mainChangeSimilarity ==
            Frac(Cardinality(sig1.mainChanges \cap sig2.mainChanges),
                 MaxOf(Cardinality(sig1.mainChanges), Cardinality(sig2.mainChanges)))
        f == fileSimilarity
        ty == typeSimilarity
        c == countSimilarity
        m == mainChangeSimilarity
    IN  IF f.nan \/ ty.nan \/ c.nan \/ m.nan THEN NaN
        ELSE Frac(3 * f.num * ty.den * c.den * m.den
                    + 2 * ty.num * f.den * c.den * m.den
                    + 2 * c.num * f.den * ty.den * m.den
                    + 3 * m.num * f.den * ty.den * c.den,
                  10 * f.den * ty.den * c.den * m.den)

SimilarityThreshold == Frac(8, 10)

\* prisma.analysisCache.findMany({take: 100, orderBy: {createdAt: "desc"}})
RecentLimit == 100

\* orderBy createdAt desc: the row at rank i has i - 1 newer rows
SortDesc(rows) ==
    [i \in 1..Cardinality(rows) |->
        CHOOSE r \in rows : Cardinality({o \in rows : o.createdAt > r.createdAt}) = i - 1]

Take(seq, n) == SubSeq(seq, 1, IF Len(seq) < n THEN Len(seq) ELSE n)

\* findMany without take: every row is a candidate
findManyAll(table) == SortDesc(table)

findMany(table) == Take(SortDesc(table), RecentLimit)

\* BestMatch accepting a similarity equal to the threshold
BestMatchAtThreshold(signature, recentCaches, i, bestMatch, highestSimilarity) ==
    LET similarity == [k \in 1..Len(recentCaches) |->
                          calculateDiffSimilarity(signature,
                                                  generateDiffSignature(recentCaches[k].diff))]
        Passes(k) == ~Greater(SimilarityThreshold, similarity[k]) /\ ~similarity[k].nan
        assigned == {k \in i..Len(recentCaches) :
                        /\ Passes(k)
                        /\ Greater(similarity[k], highestSimilarity)
                        /\ \A j \in i..(k - 1) :
                              Passes(j) => Greater(similarity[k], similarity[j])}
    IN  IF assigned = {} THEN bestMatch ELSE Obj(recentCaches[Max(assigned)])

\* the loop of findSimilarAnalysis over recentCaches, from index i on: iteration k
\* assigns bestMatch when its similarity is above the threshold and above
\* highestSimilarity, the largest assigned before it; the last assignment stays
BestMatch(signature, recentCaches, i, bestMatch, highestSimilarity) ==
    LET similarity == [k \in 1..Len(recentCaches) |->
                          calculateDiffSimilarity(signature,
                                                  generateDiffSignature(recentCaches[k].diff))]
        Passes(k) == Greater(similarity[k], SimilarityThreshold)
        assigned == {k \in i..Len(recentCaches) :
                        /\ Passes(k)
                        /\ Greater(similarity[k], highestSimilarity)
                        /\ \A j \in i..(k - 1) :
                              Passes(j) => Greater(similarity[k], similarity[j])}
    IN  IF assigned = {} THEN bestMatch ELSE Obj(recentCaches[Max(assigned)])

\* findSimilarAnalysis(diff) when the store answers: the best row or null
findSimilarAnalysis(diff, table) ==
    BestMatch(generateDiffSignature(diff), findMany(table), 1, Null, Frac(0, 1))

\* getCachedAnalysis looking the hash up in the diff column
getCachedAnalysisByDiff(diffHash, table) ==
    IF \E r \in table : r.diff = diffHash
    THEN Obj(CHOOSE r \in table : r.diff = diffHash)
    ELSE Null

\* getCachedAnalysis(diffHash) when the store answers: the row or null
getCachedAnalysis(diffHash, table) ==
    IF \E r \in table : r.diffHash = diffHash
    THEN Obj(CHOOSE r \in table : r.diffHash = diffHash)
    ELSE Null

-----------------------------------------------------------------------------
(* createCompletion and the handling of the model's text *)

\* createCompletion whose catch block returns a response without content
createCompletionNoContent(apiThrows, apiText) ==
    IF apiThrows
    THEN [content |-> <<>>, usage |-> [input_tokens |-> 0, output_tokens |-> 0]]
    ELSE [content |-> <<[type |-> "text", text |-> apiText]>>,
          usage |-> [input_tokens |-> 1, output_tokens |-> 1]]

\* createCompletion(prompt): apiText is the text the API answered with, or the
\* API call threw and the catch block builds the empty response
createCompletion(apiThrows, apiText) ==
    IF apiThrows
    THEN [content |-> <<[type |-> "text", text |-> <<>>]>>,
          usage |-> [input_tokens |-> 0, output_tokens |-> 0]]
    ELSE [content |-> <<[type |-> "text", text |-> apiText]>>,
          usage |-> [input_tokens |-> 1, output_tokens |-> 1]]

\* the fence tokens: ''' stands for three backticks
Fences == {"'''", "'''json"}

\* text.split(fence)[1].split(FENCE)[0].trim(), fence one of Fences, FENCE the bare fence
FenceInterior(text, fence) ==
    LET open == Min({i \in 1..Len(text) :
                        text[i] = fence \/ (fence = "'''" /\ text[i] \in Fences)})
        closers == {i \in (open + 1)..Len(text) : text[i] \in Fences}
        to == IF closers = {} THEN Len(text) ELSE Min(closers) - 1
    IN  Trim(SubSeq(text, open + 1, to))

\* the span of /({[\s\S]*})/ : from the first "{" to the last "}"
HasBraceSpan(text) ==
    \E i \in Positions(text, "{") : \E j \in Positions(text, "}") : i < j

BraceSpan(text) ==
    SubSeq(text, Min(Positions(text, "{")), Max(Positions(text, "}")))

\* the extraction trying the fenced blocks before the brace span
ExtractJsonStrFenceFirst(text) ==
    IF \E i \in 1..Len(text) : text[i] = "'''json" THEN FenceInterior(text, "'''json")
    ELSE IF \E i \in 1..Len(text) : text[i] \in Fences THEN FenceInterior(text, "'''")
    ELSE IF HasBraceSpan(text) THEN BraceSpan(text)
    ELSE text

\* lines 822-830: the text handed on by the three extraction branches
ExtractJsonStr(text) ==
    IF HasBraceSpan(text) THEN BraceSpan(text)
    ELSE IF \E i \in 1..Len(text) : text[i] = "'''json" THEN FenceInterior(text, "'''json")
    ELSE IF \E i \in 1..Len(text) : text[i] \in Fences THEN FenceInterior(text, "'''")
    ELSE text

\* jsonStr.replace(/^[^{]*({[\s\S]*})[^}]*$/, "$1")
StripProse(jsonStr) ==
    IF HasBraceSpan(jsonStr) THEN BraceSpan(jsonStr) ELSE jsonStr

\* The JSON documents of the model: a payload token stands for the members of
\* one object literal.
AFeature ==
    Obj([type |-> S("Feature"), file |-> S("src/app.ts"), lines |-> S("1-2"),
         summary |-> S("Added foo"),
         codeSnippet |-> Arr(<<S("1: function foo() {"), S("2: }")>>),
         explanation |-> S("Adds foo")])

ABugfix ==
    Obj([type |-> S("Bugfix"), file |-> S("src/app.ts"), lines |-> S("1-2"),
         summary |-> S("Fixed foo"), explanation |-> S("Fixes foo")])

ADiagram ==
    Obj([diagram |-> Str(<<GraphTD, "\n", "  App --> foo">>), explanation |-> S("App calls foo")])

AConcept ==
    Obj([concept |-> S("useState"), codeSnippet |-> Arr(<<S("1: useState(0)")>>),
         explanation |-> S("state")])

Payload ==
    [ok |-> Obj([codeChanges |-> Arr(<<AFeature>>), architectureDiagram |-> ADiagram,
                 reactConcept |-> AConcept]),
     nochanges |-> Obj([codeChanges |-> Arr(<<>>), architectureDiagram |-> ADiagram,
                        reactConcept |-> AConcept]),
     badtype |-> Obj([codeChanges |-> Arr(<<ABugfix>>), architectureDiagram |-> ADiagram,
                      reactConcept |-> AConcept]),
     nodiagram |-> Obj([codeChanges |-> Arr(<<AFeature>>),
                        architectureDiagram |-> Obj([explanation |-> S("App calls foo")]),
                        reactConcept |-> AConcept]),
     nullchange |-> Obj([codeChanges |-> Arr(<<Null>>), architectureDiagram |-> ADiagram,
                         reactConcept |-> AConcept]),
     numdiagram |-> Obj([codeChanges |-> Arr(<<AFeature>>),
                         architectureDiagram |-> Obj([diagram |-> Num(7),
                                                      explanation |-> S("App calls foo")]),
                         reactConcept |-> AConcept]),
     badsnippet |-> Obj([codeChanges |-> Arr(<<AFeature>>), architectureDiagram |-> ADiagram,
                         reactConcept |-> Obj([concept |-> S("useState"),
                                               codeSnippet |-> S("1: useState(0)"),
                                               explanation |-> S("state")])])]

\* JSON.parse(jsonStr): [ok |-> FALSE] stands for the SyntaxError
JSONParse(jsonStr) ==
    LET body == SelectSeq(jsonStr, LAMBDA tok : tok \notin WS)
    IN  IF Len(body) = 3 /\ body[1] = "{" /\ body[3] = "}" /\ body[2] \in DOMAIN Payload
        THEN [ok |-> TRUE, value |-> Payload[body[2]]]
        ELSE IF body = <<"{", "}">> THEN [ok |-> TRUE, value |-> Obj(<<>>)]
        ELSE IF body = <<"[", "]">> THEN [ok |-> TRUE, value |-> Arr(<<>>)]
        ELSE IF body = <<"null">> THEN [ok |-> TRUE, value |-> Null]
        ELSE IF body = <<"7">> THEN [ok |-> TRUE, value |-> Num(7)]
        ELSE [ok |-> FALSE, value |-> Undef]

\* typeof v === "object" (null and arrays included)
TypeofObject(v) == v.t \in {"object", "array", "null"}

validateChangeType(type) == IsStr(type) /\ type.s \in {<<ty>> : ty \in ChangeTypes}

\* a repair that never raises
FixNeverThrows(parsedResponse) == FALSE

\* lines 872-903 throw a TypeError: a property read on null/undefined, or a
\* call of a startsWith that is not a function
FixThrows(parsedResponse) ==
    LET cc == Get(parsedResponse, "codeChanges")
        d == OptGet(OptGet(parsedResponse, "architectureDiagram"), "diagram")
    IN  \/ IsArr(cc) /\ \E i \in 1..Len(cc.a) : cc.a[i].t \in {"undefined", "null"}
        \/ d.t \notin {"undefined", "null", "string"}

\* FixChange writing the placeholder over the file of every change
FixChangeNoFile(change) ==
    Obj([type |-> IF validateChangeType(Get(change, "type")) THEN Get(change, "type")
                  ELSE S("Chore"),
         file |-> S("unknown"),
         lines |-> OrElse(Get(change, "lines"), S("N/A")),
         summary |-> OrElse(Get(change, "summary"), S("No summary provided")),
         explanation |-> OrElse(Get(change, "explanation"), S("No explanation provided"))])

\* one element of the codeChanges.map of the repair
FixChange(change) ==
    Obj([type |-> IF validateChangeType(Get(change, "type")) THEN Get(change, "type")
                  ELSE S("Chore"),
         file |-> OrElse(Get(change, "file"), S("unknown")),
         lines |-> OrElse(Get(change, "lines"), S("N/A")),
         summary |-> OrElse(Get(change, "summary"), S("No summary provided")),
         explanation |-> OrElse(Get(change, "explanation"), S("No explanation provided"))])

\* lines 872-903: fixedResponse
FixedResponse(parsedResponse) ==
    LET cc == Get(parsedResponse, "codeChanges")
        ad == OptGet(parsedResponse, "architectureDiagram")
        rc == OptGet(parsedResponse, "reactConcept")
        d == OptGet(ad, "diagram")
        dflt == DEFAULT_ANALYSIS.o
    IN  Obj([codeChanges |->
                 IF IsArr(cc) THEN Arr([i \in 1..Len(cc.a) |-> FixChange(cc.a[i])])
                 ELSE dflt.codeChanges,
             architectureDiagram |->
                 Obj([diagram |-> IF IsStr(d) /\ StartsWith(d.s, <<GraphTD>>) THEN d
                                  ELSE dflt.architectureDiagram.o.diagram,
                      explanation |-> OrElse(OptGet(ad, "explanation"),
                                             dflt.architectureDiagram.o.explanation)]),
             reactConcept |->
                 Obj([concept |-> OrElse(OptGet(rc, "concept"), dflt.reactConcept.o.concept),
                      codeSnippet |-> OrElse(OptGet(rc, "codeSnippet"),
                                             dflt.reactConcept.o.codeSnippet),
                      explanation |-> OrElse(OptGet(rc, "explanation"),
                                             dflt.reactConcept.o.explanation)])])

\* ProcessResponse returning the repaired response without validating it again
ProcessResponseNoRecheck(response) ==
    LET content == response.content
        text == content[1].text
        jsonStr == ExtractJsonStr(text)
        parsed == JSONParse(StripProse(jsonStr))
        dflt == [how |-> "default", analysis |-> DEFAULT_ANALYSIS]
    IN  IF Len(content) = 0 \/ content[1].type # "text" THEN dflt
        ELSE IF jsonStr = <<>> THEN dflt
        ELSE IF ~parsed.ok \/ ~Truthy(parsed.value) \/ ~TypeofObject(parsed.value) THEN dflt
        ELSE IF AnalysisSchema(parsed.value)
             THEN [how |-> "first", analysis |-> SchemaOutput(parsed.value)]
        ELSE IF FixThrows(parsed.value) THEN dflt
        ELSE [how |-> "fixed", analysis |-> FixedResponse(parsed.value)]

\* lines 786-921 of generateAnalysis, from the response of createCompletion to
\* the point where the analysis is returned or handed to cacheAnalysis:
\*   how    "first"    the parsed response satisfied the schema (it is cached next)
\*          "fixed"    it satisfied the schema after the repair (returned, not cached)
\*          "default"  DEFAULT_ANALYSIS is returned
ProcessResponse(response) ==
    LET content == response.content
        text == content[1].text
        jsonStr == ExtractJsonStr(text)
        parsed == JSONParse(StripProse(jsonStr))
        dflt == [how |-> "default", analysis |-> DEFAULT_ANALYSIS]
    IN  IF Len(content) = 0 \/ content[1].type # "text" THEN dflt
        ELSE IF jsonStr = <<>> THEN dflt
        ELSE IF ~parsed.ok \/ ~Truthy(parsed.value) \/ ~TypeofObject(parsed.value) THEN dflt
        ELSE IF AnalysisSchema(parsed.value)
             THEN [how |-> "first", analysis |-> SchemaOutput(parsed.value)]
        ELSE IF FixThrows(parsed.value) THEN dflt
        ELSE IF AnalysisSchema(FixedResponse(parsed.value))
             THEN [how |-> "fixed", analysis |-> SchemaOutput(FixedResponse(parsed.value))]
        ELSE dflt

-----------------------------------------------------------------------------
(* The environment: what GitHub and the model can answer *)

\* the clients; Client is the one of the runs with one request at a time
Procs == {1, 2}
Client == 1

Owner == "owner"
Repo == "repo"
Shas == {"sha1"}

CommitMessage == <<"add", " ", "foo">>

HeaderOf(path) == <<"diff --git", " ", "a/", path, " b/", path>>

\* two diffs of the same file with the same declaration and change count
DiffA ==
    <<HeaderOf("src/app.ts"),
      <<"+", "function ", "foo", "() {">>,
      <<"+", "  ", "const ", "x", " = 1">>>>

DiffB ==
    <<HeaderOf("src/app.ts"),
      <<"+", "function ", "foo", "() {">>,
      <<"+", "  ", "const ", "y", " = 2">>>>

\* a diff that touches only package-lock.json
DiffLock ==
    <<HeaderOf("package-lock.json"),
      <<"index ", "abc..def", " ", "100644">>,
      <<"---", " ", "a/", "package-lock.json">>,
      <<"+++", " b/", "package-lock.json">>,
      <<"@@ -1,3 +1,3 @@">>,
      <<"-", "  ", "version: 1.0.0">>,
      <<"+", "  ", "version: 1.0.1">>>>

\* a diff whose every line the filter drops
DiffNoise ==
    <<HeaderOf("src/app.test.ts") \o <<".test.">>,
      <<"+">>,
      <<"+", " ", "//", " note">>,
      <<"-", " ", "/dist/", "bundle.js">>>>

Diffs == {DiffA, DiffB, DiffLock, DiffNoise}

\* what claude.messages.create can answer with
Texts ==
    {<<"{", "ok", "}">>,
     <<"Here is the analysis:", "\n", "'''json", "\n", "{", " ", "nochanges", " ", "}", "\n", "'''">>,
     <<"{", "badtype", "}">>,
     <<"{", "nodiagram", "}">>,
     <<"{", "nullchange", "}">>,
     <<"{", "numdiagram", "}">>,
     <<"{", "badsnippet", "}">>,
     <<"I cannot analyze this diff.">>,
     <<"{", "ok">>,
     <<"7">>,
     <<>>}

-----------------------------------------------------------------------------
(* The GET handler *)

Response(status, error, details, analysis) ==
    [status |-> status, error |-> error, details |-> details, analysis |-> analysis]

NoResponse == Response(0, FALSE, Null, Null)

\* no call of createCompletion yet
NoCompletion == [content |-> <<>>, usage |-> [input_tokens |-> 0 - 1, output_tokens |-> 0 - 1]]

IdleReq ==
    [pc |-> "idle", sha |-> "sha1", force |-> FALSE, existing |-> Null, diff |-> <<>>,
     filteredDiff |-> <<>>, completion |-> NoCompletion, analysis |-> Null, trace |-> <<>>,
     response |-> NoResponse]

\* AnalysisOfRow leaving reactConcept out of the body
AnalysisOfRowNoConcept(row) ==
    Obj([codeChanges |-> OrElse(row.codeChanges, Arr(<<>>)),
         architectureDiagram |-> OrElse(row.architectureDiagram,
                                        DEFAULT_ANALYSIS.o.architectureDiagram)])

\* the (existingAnalysis || savedAnalysis) part of a 200 body
AnalysisOfRow(row) ==
    Obj([codeChanges |-> OrElse(row.codeChanges, Arr(<<>>)),
         architectureDiagram |-> OrElse(row.architectureDiagram,
                                        DEFAULT_ANALYSIS.o.architectureDiagram),
         reactConcept |-> OrElse(row.reactConcept, DEFAULT_ANALYSIS.o.reactConcept)])

\* no request has ended yet
NoLast == [count |-> 0, force |-> FALSE, diff |-> <<>>, response |-> NoResponse]

\* return new Response(...) : the request ends
Respond(r, rec, resp) ==
    req' = [req EXCEPT ![r] = [rec EXCEPT !.pc = "done", !.response = resp]]

Log(rec, event) == [rec EXCEPT !.trace = Append(@, event)]

\* no call of the similarity helpers on their own
NoSim == [pc |-> "off", a |-> <<>>, b |-> <<>>, ab |-> NaN, ba |-> NaN, aa |-> NaN, found |-> Null]

\* no call of a response or diff helper on its own
NoCall == [pc |-> "off", op |-> "", arg |-> Null, out |-> Null]

Init ==
    /\ prismaUp \in BOOLEAN
    /\ apiKey \in BOOLEAN
    /\ commitTable = {}
    /\ repoTable = {}
    /\ cacheTable = {}
    /\ clock = 0
    /\ nextId = 1
    /\ req = [r \in Procs |-> IdleReq]
    /\ last = NoLast
    /\ sim = NoSim
    /\ call = NoCall

DB == <<commitTable, repoTable, cacheTable, clock, nextId>>
Env == <<prismaUp, apiKey, sim, call>>

\* lines 366-387: a request arrives; without a prisma client it ends at once
Arrive(r) ==
    /\ req[r].pc \in {"idle", "done"}
    /\ \E force \in BOOLEAN, sha \in Shas :
          LET rec == [IdleReq EXCEPT !.force = force, !.sha = sha]
          IN  IF ~prismaUp
              THEN Respond(r, rec, Response(500, TRUE,
                               S("Database connection not initialized"), DEFAULT_ANALYSIS))
              ELSE req' = [req EXCEPT ![r] = [rec EXCEPT !.pc = "findExisting"]]
    /\ UNCHANGED <<DB, Env>>

Start(r) == Arrive(r) /\ UNCHANGED last

\* a findFirst that finds no record
findFirstNone(sha) == Null

\* prisma.commitAnalysis.findFirst of lines 392-399
findFirst(sha) ==
    LET rows == {row \in commitTable :
                    /\ row.commitSha = sha
                    /\ \E rp \in repoTable :
                          rp.id = row.repositoryId /\ rp.owner = Owner /\ rp.name = Repo}
    IN  IF rows = {} THEN Null ELSE Obj(CHOOSE row \in rows : TRUE)

\* lines 389-415
FindExisting(r) ==
    /\ req[r].pc = "findExisting"
    /\ \E queryOk \in BOOLEAN :
          IF queryOk
          THEN req' = [req EXCEPT ![r] = [@ EXCEPT !.pc = "getCommit",
                                                   !.existing = findFirst(req[r].sha)]]
          ELSE Respond(r, Log(req[r], "queryFailed"), Response(500, TRUE,
                           S("Failed to query existing analysis"), DEFAULT_ANALYSIS))
    /\ UNCHANGED <<DB, Env, last>>

\* HasStoredChanges with the test of forceRegenerate inverted
HasStoredChangesWhenForced(rec) ==
    /\ rec.force
    /\ Truthy(rec.existing)
    /\ IsArr(Get(rec.existing, "codeChanges"))
    /\ Len(Get(rec.existing, "codeChanges").a) > 0

\* the condition of lines 455-460
HasStoredChanges(rec) ==
    /\ ~rec.force
    /\ Truthy(rec.existing)
    /\ IsArr(Get(rec.existing, "codeChanges"))
    /\ Len(Get(rec.existing, "codeChanges").a) > 0

\* lines 417-486
GetCommit(r) ==
    /\ req[r].pc = "getCommit"
    /\ \E outcome \in {"throws", "null", "details"} :
          IF outcome # "details"
          THEN Respond(r, Log(req[r], "commitFailed"), Response(500, TRUE,
                           S("Failed to fetch commit details"), DEFAULT_ANALYSIS))
          ELSE IF HasStoredChanges(req[r])
          THEN Respond(r, req[r], Response(200, FALSE, Null, AnalysisOfRow(req[r].existing.o)))
          ELSE req' = [req EXCEPT ![r] = [@ EXCEPT !.pc = "getDiff"]]
    /\ UNCHANGED <<DB, Env, last>>

\* lines 488-520
GetDiff(r) ==
    /\ req[r].pc = "getDiff"
    /\ \/ \E outcome \in {"throws", "empty"} :
            Respond(r, Log(req[r], "getDiff"),
                    Response(500, TRUE,
                             IF outcome = "throws" THEN S("Failed to fetch diff")
                             ELSE S("No diff content returned from GitHub"),
                             DEFAULT_ANALYSIS))
       \/ \E diff \in Diffs :
            req' = [req EXCEPT ![r] = [Log(@, "getDiff") EXCEPT !.pc = "generate", !.diff = diff]]
    /\ UNCHANGED <<DB, Env, last>>

\* generateAnalysis returns: GET goes on at line 524
Return(r, rec, analysis) ==
    req' = [req EXCEPT ![r] = [rec EXCEPT !.pc = "upsertRepo", !.analysis = analysis]]

\* Generate without the return on an empty filtered diff
GenerateNoEmptyCheck(r) ==
    /\ req[r].pc = "generate"
    /\ LET filteredDiff == FilterDiff(req[r].diff)
       IN  IF ~apiKey THEN Return(r, req[r], DEFAULT_ANALYSIS)
           ELSE req' = [req EXCEPT ![r] = [@ EXCEPT !.pc = "exact",
                                                    !.filteredDiff = filteredDiff]]
    /\ UNCHANGED <<DB, Env, last>>

\* lines 712-752 of generateAnalysis
Generate(r) ==
    /\ req[r].pc = "generate"
    /\ LET filteredDiff == FilterDiff(req[r].diff)
       IN  IF ~apiKey THEN Return(r, req[r], DEFAULT_ANALYSIS)
           ELSE IF JoinIsEmpty(filteredDiff) THEN Return(r, req[r], DEFAULT_ANALYSIS)
           ELSE req' = [req EXCEPT ![r] = [@ EXCEPT !.pc = "exact",
                                                    !.filteredDiff = filteredDiff]]
    /\ UNCHANGED <<DB, Env, last>>

\* lines 754-761: the store throws (storeOk = FALSE) or answers
ExactLookup(r) ==
    /\ req[r].pc = "exact"
    /\ \E storeOk \in BOOLEAN :
          LET exactMatch == IF storeOk
                            THEN getCachedAnalysis(generateDiffHash(req[r].filteredDiff),
                                                   cacheTable)
                            ELSE Null
              rec == Log(req[r], IF storeOk THEN "exact" ELSE "exactError")
          IN  IF Truthy(OptGet(exactMatch, "analysis"))
              THEN Return(r, Log(rec, "exactHit"), exactMatch.o.analysis)
              ELSE req' = [req EXCEPT ![r] = [rec EXCEPT !.pc = "similar"]]
    /\ UNCHANGED <<DB, Env, last>>

\* lines 763-768
SimilarLookup(r) ==
    /\ req[r].pc = "similar"
    /\ \E storeOk \in BOOLEAN :
          LET similarMatch == IF storeOk
                              THEN findSimilarAnalysis(req[r].filteredDiff, cacheTable)
                              ELSE Null
              rec == Log(req[r], IF storeOk THEN "similar" ELSE "similarError")
          IN  IF Truthy(OptGet(similarMatch, "analysis"))
              THEN Return(r, Log(rec, "similarHit"), similarMatch.o.analysis)
              ELSE req' = [req EXCEPT ![r] = [rec EXCEPT !.pc = "model"]]
    /\ UNCHANGED <<DB, Env, last>>

\* lines 770-858 and 865-921: the model call and everything up to cacheAnalysis
CallModel(r) ==
    /\ req[r].pc = "model"
    /\ \E apiThrows \in BOOLEAN, apiText \in Texts :
          /\ apiThrows => apiText = <<>>
          /\ LET response == createCompletion(apiThrows, apiText)
                 out == ProcessResponse(response)
                 rec == [Log(req[r], IF apiThrows THEN "modelError" ELSE "model")
                             EXCEPT !.completion = response]
             IN  IF out.how = "first"
                 THEN req' = [req EXCEPT ![r] = [rec EXCEPT !.pc = "cachePut",
                                                            !.analysis = out.analysis]]
                 ELSE Return(r, Log(rec, out.how), out.analysis)
    /\ UNCHANGED <<DB, Env, last>>

\* prisma.analysisCache.create: diffHash is the primary key
CanInsert(diffHash) == \A row \in cacheTable : row.diffHash # diffHash

\* CachePut writing with upsert: an existing entry is replaced
CachePutUpsert(r) ==
    /\ req[r].pc = "cachePut"
    /\ \E storeOk \in BOOLEAN :
          LET diffHash == generateDiffHash(req[r].filteredDiff)
          IN  IF storeOk
              THEN /\ cacheTable' = {row \in cacheTable : row.diffHash # diffHash} \cup
                          {[diffHash |-> diffHash, diff |-> req[r].filteredDiff,
                            analysis |-> req[r].analysis, createdAt |-> clock + 1]}
                   /\ clock' = clock + 1
                   /\ Return(r, Log(req[r], "cached"), req[r].analysis)
              ELSE /\ UNCHANGED <<cacheTable, clock>>
                   /\ Return(r, Log(req[r], "cacheFailed"), req[r].analysis)
    /\ UNCHANGED <<commitTable, repoTable, nextId, Env, last>>

\* CachePut letting the failure of the write end the request
CachePutAborts(r) ==
    /\ req[r].pc = "cachePut"
    /\ \E storeOk \in BOOLEAN :
          LET diffHash == generateDiffHash(req[r].filteredDiff)
          IN  IF storeOk /\ CanInsert(diffHash)
              THEN /\ cacheTable' = cacheTable \cup
                          {[diffHash |-> diffHash, diff |-> req[r].filteredDiff,
                            analysis |-> req[r].analysis, createdAt |-> clock + 1]}
                   /\ clock' = clock + 1
                   /\ Return(r, Log(req[r], "cached"), req[r].analysis)
              ELSE /\ UNCHANGED <<cacheTable, clock>>
                   /\ Respond(r, Log(req[r], "cacheFailed"),
                              Response(500, TRUE, S("Failed to cache analysis"), DEFAULT_ANALYSIS))
    /\ UNCHANGED <<commitTable, repoTable, nextId, Env, last>>

\* lines 859-862 with cacheAnalysis (lines 306-323)
CachePut(r) ==
    /\ req[r].pc = "cachePut"
    /\ \E storeOk \in BOOLEAN :
          LET diffHash == generateDiffHash(req[r].filteredDiff)
          IN  IF storeOk /\ CanInsert(diffHash)
              THEN /\ cacheTable' = cacheTable \cup
                          {[diffHash |-> diffHash, diff |-> req[r].filteredDiff,
                            analysis |-> req[r].analysis, createdAt |-> clock + 1]}
                   /\ clock' = clock + 1
                   /\ Return(r, Log(req[r], "cached"), req[r].analysis)
              ELSE /\ UNCHANGED <<cacheTable, clock>>
                   /\ Return(r, Log(req[r], "cacheFailed"), req[r].analysis)
    /\ UNCHANGED <<commitTable, repoTable, nextId, Env, last>>

\* lines 524-588
UpsertRepo(r) ==
    /\ req[r].pc = "upsertRepo"
    /\ \E storeOk \in BOOLEAN :
          IF ~Truthy(req[r].analysis)
          THEN /\ UNCHANGED repoTable
               /\ Respond(r, req[r], Response(500, TRUE,
                              S("Analysis generation returned no results"), DEFAULT_ANALYSIS))
          ELSE IF storeOk
          THEN /\ repoTable' =
                     IF \E rp \in repoTable : rp.owner = Owner /\ rp.name = Repo
                     THEN repoTable
                     ELSE repoTable \cup {[id |-> 1, owner |-> Owner, name |-> Repo]}
               /\ req' = [req EXCEPT ![r] = [@ EXCEPT !.pc = "save"]]
          ELSE /\ UNCHANGED repoTable
               /\ Respond(r, Log(req[r], "upsertFailed"), Response(500, TRUE,
                              S("Failed to create/update repository"), DEFAULT_ANALYSIS))
    /\ UNCHANGED <<commitTable, cacheTable, clock, nextId, Env, last>>

\* s.split(" ").slice(0, n).join(" ")
RECURSIVE FirstWords(_, _)
FirstWords(s, n) ==
    IF s = <<>> \/ n = 0 THEN <<>>
    ELSE IF Head(s) = " "
         THEN IF n = 1 THEN <<>> ELSE <<" ">> \o FirstWords(Tail(s), n - 1)
         ELSE <<Head(s)>> \o FirstWords(Tail(s), n)

SummaryWords == 12

\* lines 349-364
generateSummary(codeChanges, commitMessage) ==
    LET significant == {i \in 1..Len(codeChanges.a) :
                           /\ Get(codeChanges.a[i], "type") \in {S("Feature"), S("Refactor")}
                           /\ Truthy(Get(codeChanges.a[i], "summary"))}
    IN  IF significant # {}
        THEN Str(FirstWords(Get(codeChanges.a[Min(significant)], "summary").s, SummaryWords))
        ELSE Str(FirstWords(commitMessage, SummaryWords))

\* the data of lines 597-625
RowData(rec) ==
    [codeChanges |-> OrElse(Get(rec.analysis, "codeChanges"), Arr(<<>>)),
     architectureDiagram |-> OrElse(Get(rec.analysis, "architectureDiagram"),
                                    DEFAULT_ANALYSIS.o.architectureDiagram),
     reactConcept |-> OrElse(Get(rec.analysis, "reactConcept"),
                             DEFAULT_ANALYSIS.o.reactConcept),
     summary |-> generateSummary(Get(rec.analysis, "codeChanges"), CommitMessage)]

RepoId == (CHOOSE rp \in repoTable : rp.owner = Owner /\ rp.name = Repo).id

\* SavedRow writing the record under another commit
SavedRowOtherSha(rec) ==
    LET data == RowData(rec)
    IN  [id |-> IF Truthy(rec.existing) THEN rec.existing.o.id ELSE nextId,
         repositoryId |-> RepoId,
         commitSha |-> "other",
         codeChanges |-> data.codeChanges,
         architectureDiagram |-> data.architectureDiagram,
         reactConcept |-> data.reactConcept,
         summary |-> data.summary]

\* the row prisma.commitAnalysis.update / create of lines 594-630 returns
SavedRow(rec) ==
    LET data == RowData(rec)
    IN  [id |-> IF Truthy(rec.existing) THEN rec.existing.o.id ELSE nextId,
         repositoryId |-> RepoId,
         commitSha |-> rec.sha,
         codeChanges |-> data.codeChanges,
         architectureDiagram |-> data.architectureDiagram,
         reactConcept |-> data.reactConcept,
         summary |-> data.summary]

\* CanSave of a table without the unique constraint
CanSaveAlways(rec) == TRUE

\* update needs the row to exist; create needs (repositoryId, commitSha) to be free
CanSave(rec) ==
    IF Truthy(rec.existing)
    THEN \E row \in commitTable : row.id = rec.existing.o.id
    ELSE \A row \in commitTable : ~(row.repositoryId = RepoId /\ row.commitSha = rec.sha)

\* lines 590-683
Save(r) ==
    /\ req[r].pc = "save"
    /\ \E storeOk \in BOOLEAN :
          IF storeOk /\ CanSave(req[r])
          THEN LET savedAnalysis == SavedRow(req[r])
               IN  /\ commitTable' =
                          {row \in commitTable : row.id # savedAnalysis.id} \cup {savedAnalysis}
                   /\ nextId' = IF Truthy(req[r].existing) THEN nextId ELSE nextId + 1
                   /\ Respond(r, Log(req[r], "saved"),
                              Response(200, FALSE, Null, AnalysisOfRow(savedAnalysis)))
          ELSE /\ UNCHANGED <<commitTable, nextId>>
               /\ Respond(r, IF storeOk THEN Log(Log(req[r], "saveFailed"), "duplicateRecord")
                              ELSE Log(req[r], "saveFailed"),
                          Response(500, TRUE, S("database error"),
                                   OrElse(req[r].analysis, DEFAULT_ANALYSIS)))
    /\ UNCHANGED <<repoTable, cacheTable, clock, Env, last>>

Step(r) ==
    \/ Start(r)
    \/ FindExisting(r)
    \/ GetCommit(r)
    \/ GetDiff(r)
    \/ Generate(r)
    \/ ExactLookup(r)
    \/ SimilarLookup(r)
    \/ CallModel(r)
    \/ CachePut(r)
    \/ UpsertRepo(r)
    \/ Save(r)

\* one request at a time
Next == Step(Client)

Spec == Init /\ [][Next]_vars

-----------------------------------------------------------------------------
(* Runs of a few requests in sequence, each one observed by the next *)

MaxRequests == 2

\* Start(r), with the request that has just ended kept in last
StartNext(r) ==
    /\ last.count < MaxRequests
    /\ Arrive(r)
    /\ last' = [count |-> last.count + 1, force |-> req[r].force, diff |-> req[r].diff,
                response |-> req[r].response]

StepTwice(r) ==
    \/ StartNext(r)
    \/ FindExisting(r)
    \/ GetCommit(r)
    \/ GetDiff(r)
    \/ Generate(r)
    \/ ExactLookup(r)
    \/ SimilarLookup(r)
    \/ CallModel(r)
    \/ CachePut(r)
    \/ UpsertRepo(r)
    \/ Save(r)

NextTwice == StepTwice(Client)

SpecTwice == Init /\ [][NextTwice]_vars

-----------------------------------------------------------------------------
(* Two requests in flight at once, each client calling GET once *)

StartOnce(r) ==
    /\ req[r].pc = "idle"
    /\ Arrive(r)
    /\ UNCHANGED last

StepPair(r) ==
    \/ StartOnce(r)
    \/ FindExisting(r)
    \/ GetCommit(r)
    \/ GetDiff(r)
    \/ Generate(r)
    \/ ExactLookup(r)
    \/ SimilarLookup(r)
    \/ CallModel(r)
    \/ CachePut(r)
    \/ UpsertRepo(r)
    \/ Save(r)

\* both requests are for the same commit, so GitHub answers both with the same
\* diff; the model answers with a valid analysis, one the repair mends, or prose
PairDiffs == {DiffA}
PairTexts == {<<"{", "ok", "}">>, <<"{", "badtype", "}">>, <<"I cannot analyze this diff.">>}

PairEnv ==
    \A r \in Procs :
        /\ req[r].diff \in PairDiffs \cup {<<>>}
        /\ req[r].completion.content # <<>> =>
              req[r].completion.content[1].text \in PairTexts \cup {<<>>}

InitPair == Init /\ prismaUp /\ apiKey

NextPair == (\E r \in Procs : StepPair(r)) /\ PairEnv'

SpecPair == InitPair /\ [][NextPair]_vars

-----------------------------------------------------------------------------
(* calculateDiffSimilarity on its own: every pair of short diffs *)

\* the lines the diffs are made of
SimLines ==
    {HeaderOf("src/app.ts"),
     HeaderOf("src/b.ts"),
     <<"+", "import ", "x">>,
     <<"+", "const ", "y", " = 2">>,
     <<"+", "type ", "foo">>,
     <<"+", "function ", "foo", "() {">>,
     <<"-", "x">>}

MaxDiffLines == 2

RECURSIVE SeqsUpTo(_, _)
SeqsUpTo(set, n) ==
    IF n = 0 THEN {<<>>}
    ELSE LET shorter == SeqsUpTo(set, n - 1)
         IN  shorter \cup {Append(s, x) : s \in {t \in shorter : Len(t) = n - 1}, x \in set}

SimDiffs == SeqsUpTo(SimLines, MaxDiffLines)

InitSimilarity ==
    /\ prismaUp = TRUE
    /\ apiKey = TRUE
    /\ commitTable = {}
    /\ repoTable = {}
    /\ cacheTable = {}
    /\ clock = 0
    /\ nextId = 1
    /\ req = [r \in Procs |-> IdleReq]
    /\ last = NoLast
    /\ \E a \in SimDiffs, b \in SimDiffs : sim = [NoSim EXCEPT !.pc = "ready", !.a = a, !.b = b]
    /\ call = NoCall

\* the three calls: (sig of a, sig of b), (sig of b, sig of a), (sig of a, sig of a)
Compare ==
    /\ sim.pc = "ready"
    /\ LET sig1 == generateDiffSignature(sim.a)
           sig2 == generateDiffSignature(sim.b)
       IN  sim' = [sim EXCEPT !.pc = "done",
                              !.ab = calculateDiffSimilarity(sig1, sig2),
                              !.ba = calculateDiffSimilarity(sig2, sig1),
                              !.aa = calculateDiffSimilarity(sig1, sig1)]
    /\ UNCHANGED <<DB, prismaUp, apiKey, req, last, call>>

NextSimilarity == Compare

SpecSimilarity == InitSimilarity /\ [][NextSimilarity]_vars

-----------------------------------------------------------------------------
(* findSimilarAnalysis on its own: a query diff against a cache table *)

\* the query diffs
QueryTypes == <<HeaderOf("src/app.ts"), <<"+", "type ", "foo">>, <<"+", "import ", "x">>>>
QueryPlain == <<HeaderOf("src/app.ts"), <<"-", "x">>>>

Queries == {QueryTypes, QueryPlain}

\* cached diffs; against QueryTypes: ExactlyAtThreshold scores 0.8, AboveThreshold 0.85
ExactlyAtThreshold ==
    <<HeaderOf("src/app.ts"), <<"+", "type ", "foo">>, <<"+", "const ", "y", " = 2">>>>
AboveThreshold ==
    <<HeaderOf("src/app.ts"), <<"+", "type ", "foo">>, <<"+", "import ", "x">>,
      <<"+", "const ", "y", " = 2">>>>
Unrelated == <<HeaderOf("src/b.ts"), <<"-", "x">>>>

Candidates == {QueryTypes, QueryPlain, ExactlyAtThreshold, AboveThreshold, Unrelated}

MaxRows == 2

\* a row of AnalysisCache as cacheAnalysis writes it
CacheRow(diff, createdAt) ==
    [diffHash |-> generateDiffHash(diff), diff |-> diff, analysis |-> Payload.ok,
     createdAt |-> createdAt]

\* n entries of other files, all of them newer than the rows of Candidates
Fillers(n) ==
    {CacheRow(<<HeaderOf("lib/other.ts"), <<"-", ToString(i)>>>>, MaxRows + i) : i \in 1..n}

\* up to MaxRows cached candidates, created at distinct times
CandidateTables ==
    UNION {{ {CacheRow(d, t[d]) : d \in chosen} :
               t \in {g \in [chosen -> 1..MaxRows] :
                         \A d1 \in chosen, d2 \in chosen : d1 # d2 => g[d1] # g[d2]} } :
           chosen \in {c \in SUBSET Candidates : Cardinality(c) <= MaxRows}}

InitLookup ==
    /\ prismaUp = TRUE
    /\ apiKey = TRUE
    /\ commitTable = {}
    /\ repoTable = {}
    /\ \E table \in CandidateTables, n \in {0, RecentLimit - 1, RecentLimit} :
          /\ cacheTable = table \cup Fillers(n)
          /\ clock = MaxRows + n
    /\ nextId = 1
    /\ req = [r \in Procs |-> IdleReq]
    /\ last = NoLast
    /\ \E q \in Queries : sim = [NoSim EXCEPT !.pc = "ready", !.a = q]
    /\ call = NoCall

\* findSimilarAnalysis(diff) with the store answering
Lookup ==
    /\ sim.pc = "ready"
    /\ sim' = [sim EXCEPT !.pc = "done", !.found = findSimilarAnalysis(sim.a, cacheTable)]
    /\ UNCHANGED <<DB, prismaUp, apiKey, req, last, call>>

NextLookup == Lookup

SpecLookup == InitLookup /\ [][NextLookup]_vars

-----------------------------------------------------------------------------
(* The response and diff helpers on their own: one call, from argument to result *)

\* lines 853-916 of generateAnalysis: AnalysisSchema.parse of the parsed response,
\* the repair after a ZodError and the second AnalysisSchema.parse
ValidateParsed(parsedResponse) ==
    LET dflt == [how |-> "default", analysis |-> DEFAULT_ANALYSIS]
    IN  IF AnalysisSchema(parsedResponse)
        THEN [how |-> "first", analysis |-> SchemaOutput(parsedResponse)]
        ELSE IF FixThrows(parsedResponse) THEN dflt
        ELSE IF AnalysisSchema(FixedResponse(parsedResponse))
             THEN [how |-> "fixed", analysis |-> SchemaOutput(FixedResponse(parsedResponse))]
        ELSE dflt

MaxChanges == 2

\* the objects JSON.parse can hand to the validation (a key without a value is absent)
ParsedResponses ==
    LET changes ==
            {AFeature,
             ABugfix,
             Obj([ABugfix.o EXCEPT !.summary = Str(<<>>)]),
             Obj([file |-> S("src/app.ts"), summary |-> S("Moved foo"),
                  explanation |-> S("Moves foo")]),
             Obj([type |-> S("Chore"), file |-> S("package.json"), lines |-> S("3-3"),
                  summary |-> S("Bumped version"), explanation |-> S("Bumps the version")]),
             Null}
        diagrams ==
            {ADiagram,
             Obj([ADiagram.o EXCEPT !.explanation = Str(<<>>)]),
             Obj([explanation |-> S("App calls foo")]),
             Obj([explanation |-> Str(<<>>)]),
             Obj([diagram |-> S("flowchart LR"), explanation |-> S("App calls foo")]),
             Obj([diagram |-> Num(7), explanation |-> S("App calls foo")]),
             Undef}
        concepts ==
            {AConcept,
             Obj([AConcept.o EXCEPT !.concept = Str(<<>>)]),
             Obj([AConcept.o EXCEPT !.codeSnippet = S("1: useState(0)")]),
             Undef}
    IN  {Strip(Obj([codeChanges |-> cc, architectureDiagram |-> ad, reactConcept |-> rc]),
               {"codeChanges", "architectureDiagram", "reactConcept"}) :
            cc \in {Arr(s) : s \in SeqsUpTo(changes, MaxChanges)} \cup {Undef},
            ad \in diagrams,
            rc \in concepts}

\* the call returns
Returns(op, out) ==
    /\ call.pc = "ready"
    /\ call.op = op
    /\ call' = [call EXCEPT !.pc = "done", !.out = out]
    /\ UNCHANGED <<DB, prismaUp, apiKey, req, last, sim>>

Validate == Returns("validate", ValidateParsed(call.arg))

\* lines 821-846 of generateAnalysis: the text that reaches JSON.parse and what it
\* parses to; handed is FALSE when line 832 returns before the parse
ExtractAndParse(text) ==
    LET jsonStr == ExtractJsonStr(text)
    IN  IF jsonStr = <<>>
        THEN [handed |-> FALSE, jsonStr |-> <<>>, parsed |-> [ok |-> FALSE, value |-> Undef]]
        ELSE [handed |-> TRUE, jsonStr |-> StripProse(jsonStr),
              parsed |-> JSONParse(StripProse(jsonStr))]

MaxTextLen == 5

Extract == Returns("extract", ExtractAndParse(call.arg))

-----------------------------------------------------------------------------
(* The revision of the route with the New Feature / Improvement types:      *)
(* sortCodeChanges, validateAndCleanCodeChanges, validateAndCleanReactConcept *)

\* validateChangeType of that revision
validateChangeTypeV2(type) ==
    /\ IsStr(type)
    /\ type.s \in {<<"New Feature">>, <<"Refactor">>, <<"Improvement">>, <<"Chore">>,
                   <<"Cleanup">>, <<"Config">>}

\* sortCodeChanges returning its argument as it is
sortCodeChangesUnsorted(changes) == changes

\* changes.sort((a, b) => aOrder - bOrder): Array.prototype.sort is stable
sortCodeChanges(changes) ==
    LET typeOrder(change) ==
            LET type == Get(change, "type")
            IN  CASE type = S("New Feature") -> 0
                  [] type = S("Refactor") -> 1
                  [] type = S("Improvement") -> 2
                  [] type = S("Chore") -> 3
                  [] type = S("Cleanup") -> 4
                  [] type = S("Config") -> 5
                  [] OTHER -> 999
        n == Len(changes)
        Before(j, i) ==
            \/ typeOrder(changes[j]) < typeOrder(changes[i])
            \/ typeOrder(changes[j]) = typeOrder(changes[i]) /\ j < i
        Place(i) == Cardinality({j \in 1..n : Before(j, i)}) + 1
    IN  [p \in 1..n |-> changes[CHOOSE i \in 1..n : Place(i) = p]]

\* s.split(sep) for a separator that is one token
RECURSIVE Split(_, _)
Split(s, sep) ==
    IF Positions(s, sep) = {} THEN <<s>>
    ELSE LET i == Min(Positions(s, sep))
         IN  <<SubSeq(s, 1, i - 1)>> \o Split(SubSeq(s, i + 1, Len(s)), sep)

MaxLineNumber == 12

\* parseInt(s): the number of a leading digit token, NaN without one
parseInt(s) ==
    IF s # <<>> /\ \E n \in 0..MaxLineNumber : ToString(n) = s[1]
    THEN Frac(CHOOSE n \in 0..MaxLineNumber : ToString(n) = s[1], 1)
    ELSE NaN

\* validateLineNumbers accepting line numbers past the end of the range
validateLineNumbersNoEnd(codeSnippet, lineRange) ==
    LET pieces == Split(lineRange.s, "-")
        start == parseInt(pieces[1])
        end == IF Len(pieces) >= 2 THEN parseInt(pieces[2]) ELSE NaN
    IN  /\ Truthy(lineRange) /\ Truthy(codeSnippet) /\ Len(codeSnippet.a) # 0
        /\ ~start.nan /\ ~end.nan
        /\ \A i \in 1..Len(codeSnippet.a) :
              StartsWith(codeSnippet.a[i].s, <<ToString(start.num + i - 1), ": ">>)

validateLineNumbers(codeSnippet, lineRange) ==
    LET pieces == Split(lineRange.s, "-")
        start == parseInt(pieces[1])
        end == IF Len(pieces) >= 2 THEN parseInt(pieces[2]) ELSE NaN
    IN  /\ Truthy(lineRange) /\ Truthy(codeSnippet) /\ Len(codeSnippet.a) # 0
        /\ ~start.nan /\ ~end.nan
        /\ \A i \in 1..Len(codeSnippet.a) :
              /\ StartsWith(codeSnippet.a[i].s, <<ToString(start.num + i - 1), ": ">>)
              /\ start.num + i - 1 <= end.num

\* parseInt((lines || "").split("-")[0]) || 1
StartOf(lines) ==
    LET startStr == Split(OrElse(lines, Str(<<>>)).s, "-")[1]
    IN  IF parseInt(startStr).nan \/ parseInt(startStr).num = 0 THEN 1
        ELSE parseInt(startStr).num

\* the rewritten range with its start moved by one
RepairedLinesShifted(start, length) ==
    Str(<<ToString(start + 1), "-", ToString(start + length)>>)

\* the template of the rewritten lines field: start, "-", start + length - 1
RepairedLines(start, length) ==
    Str(<<ToString(start), "-", ToString(start + length - 1)>>)

\* one element of the codeSnippet.map of the repair: the line under a new number
Renumbered(line, number) ==
    LET lineContent == IF Includes(line.s, <<": ">>) THEN Split(line.s, ": ")[2] ELSE line.s
    IN  Str(<<ToString(number), ": ">> \o lineContent)

\* changes.map(...) of validateAndCleanCodeChanges
validateAndCleanCodeChanges(changes) ==
    LET CleanChange(change) ==
            LET type == IF validateChangeTypeV2(Get(change, "type")) THEN Get(change, "type")
                        ELSE S("Chore")
                shouldHaveSnippet ==
                    type.s \in {<<"New Feature">>, <<"Refactor">>, <<"Improvement">>}
                file == OrElse(Get(change, "file"), S("unknown"))
                lines == OrElse(Get(change, "lines"), S("N/A"))
                explanation == OrElse(Get(change, "explanation"), S("No explanation provided"))
                codeSnippet == Get(change, "codeSnippet")
                start == StartOf(Get(change, "lines"))
            IN  IF shouldHaveSnippet /\ IsArr(codeSnippet)
                THEN IF validateLineNumbers(codeSnippet, Get(change, "lines"))
                     THEN Obj([type |-> type, file |-> file, lines |-> lines,
                               explanation |-> explanation, codeSnippet |-> codeSnippet])
                     ELSE Obj([type |-> type, file |-> file,
                               lines |-> RepairedLines(start, Len(codeSnippet.a)),
                               explanation |-> explanation,
                               codeSnippet |->
                                   Arr([i \in 1..Len(codeSnippet.a) |->
                                           Renumbered(codeSnippet.a[i], start + i - 1)])])
                ELSE Obj([type |-> type, file |-> file, lines |-> lines,
                          explanation |-> explanation])
    IN  [i \in 1..Len(changes) |-> CleanChange(changes[i])]

validateAndCleanReactConcept(concept) ==
    LET dflt == [concept |-> S("None"), file |-> S("unknown"), lines |-> S("N/A"),
                 codeSnippet |-> Arr(<<Str(<<"1", ": ", "// No code snippet available">>)>>),
                 explanation |-> S("No React concept analysis available")]
        codeSnippet == IF IsArr(OptGet(concept, "codeSnippet")) THEN OptGet(concept, "codeSnippet")
                       ELSE dflt.codeSnippet
        cleanedConcept ==
            [concept |-> OrElse(OptGet(concept, "concept"), dflt.concept),
             file |-> OrElse(OptGet(concept, "file"), dflt.file),
             lines |-> OrElse(OptGet(concept, "lines"), dflt.lines),
             codeSnippet |-> codeSnippet,
             explanation |-> OrElse(OptGet(concept, "explanation"), dflt.explanation)]
        start == StartOf(cleanedConcept.lines)
    IN  IF ~validateLineNumbers(cleanedConcept.codeSnippet, cleanedConcept.lines)
        THEN Obj([cleanedConcept EXCEPT
                     !.lines = RepairedLines(start, Len(codeSnippet.a)),
                     !.codeSnippet = Arr([i \in 1..Len(codeSnippet.a) |->
                                             Renumbered(codeSnippet.a[i], start + i - 1)])])
        ELSE Obj(cleanedConcept)

-----------------------------------------------------------------------------
(* The reduce stage of that revision: lines 612-649 of generateAnalysis *)

TOKEN_LIMIT == 2000

\* Math.ceil(text.length / 4), the length counted in characters
estimateTokenCount(text) ==
    LET RECURSIVE TextLength(_)
        TextLength(t) == IF t = <<>> THEN 0 ELSE Len(Head(t)) + TextLength(Tail(t))
    IN  (TextLength(text) + 3) \div 4

\* pieces.join(sep)
RECURSIVE Join(_, _)
Join(pieces, sep) ==
    IF pieces = <<>> THEN <<>>
    ELSE IF Len(pieces) = 1 THEN pieces[1]
    ELSE pieces[1] \o <<sep>> \o Join(Tail(pieces), sep)

\* the filter of lines 616-624: file headers, + and - lines, hunk headers
IsMeaningful(line) ==
    /\ line # <<>>
    /\ line[1] \in {"diff --git", "+", "-", "+++", "---", "@@ ", "@@ -1,3 +1,3 @@"}

\* change.includes(text) for the texts of lines 638-643, over the path tokens
ChangeIncludes(change, text) ==
    CASE text = " a/src/" -> Includes(change, <<" a/", "src/">>)
      [] text = ".ts" -> \E i \in 1..Len(change) : change[i] \in {".ts", ".tsx"}
      [] text = ".tsx" -> \E i \in 1..Len(change) : change[i] = ".tsx"
      [] text = ".js" -> \E i \in 1..Len(change) : change[i] \in {".js", ".json", ".jsx"}

\* finalDiff of lines 614-649, from the lines of filteredDiff
ReduceDiff(filteredDiff) ==
    LET meaningfulDiff == Join(SelectSeq(filteredDiff, IsMeaningful), "\n")
        changes == Split(meaningfulDiff, "diff --git")
        importantChanges ==
            SelectSeq(changes, LAMBDA change : \E text \in {" a/src/", ".ts", ".tsx", ".js"} :
                                                  ChangeIncludes(change, text))
    IN  IF estimateTokenCount(meaningfulDiff) > TOKEN_LIMIT
        THEN Join(Take(importantChanges, 3), "diff --git")
        ELSE meaningfulDiff

\* the lines of one file of a diff: its header and either a short change or a long
\* one, of 7 times 400 characters
FileSegment(path, long) ==
    LET padding ==
            "xxxxxxxxxxxxxxxxxxxxxxxxxxxxxxxxxxxxxxxxxxxxxxxxxxxxxxxxxxxxxxxxxxxxxxxxxxxxxxxxxxxxxxxxxxxxxxxxxxxxxxxxxxxxxxxxxxxxxxxxxxxxxxxxxxxxxxxxxxxxxxxxxxxxxxxxxxxxxxxxxxxxxxxxxxxxxxxxxxxxxxxxxxxxxxxxxxxxxxxxxxxxxxxxxxxxxxxxxxxxxxxxxxxxxxxxxxxxxxxxxxxxxxxxxxxxxxxxxxxxxxxxxxxxxxxxxxxxxxxxxxxxxxxxxxxxxxxxxxxxxxxxxxxxxxxxxxxxxxxxxxxxxxxxxxxxxxxxxxxxxxxxxxxxxxxxxxxxxxxxxxxxxxxxxxxxxxxxxxxxxxxxxxxxxxxxxxxxxxxx"
    IN  <<<<"diff --git", " a/">> \o path \o <<" b/">> \o path,
          <<"index ", "abc..def">>,
          <<"@@ -1,3 +1,3 @@">>,
          <<" ", "unchanged">>,
          IF long THEN <<"+">> \o [i \in 1..7 |-> padding] ELSE <<"+", "changed">>>>

MaxFiles == 4

\* the diffs handed to the reduce stage, file by file
SegmentLists ==
    SeqsUpTo({FileSegment(path, long) :
                  path \in {<<"src/", "app", ".ts">>, <<"README", ".md">>,
                            <<"package", ".json">>, <<"lib/", "util", ".js">>},
                  long \in BOOLEAN},
             MaxFiles)

\* the lines of a diff made of these files
RECURSIVE LinesOf(_)
LinesOf(segments) == IF segments = <<>> THEN <<>> ELSE Head(segments) \o LinesOf(Tail(segments))

-----------------------------------------------------------------------------
(* One call of a helper: the arguments and the calls *)

MaxSorted == 3

\* the arrays handed to sortCodeChanges
SortInputs ==
    SeqsUpTo({Obj([type |-> S(ty), file |-> S(f)]) :
                  ty \in {"New Feature", "Refactor", "Chore", "Config", "Bugfix"},
                  f \in {"a.ts", "b.ts"}},
             MaxSorted)

MaxSnippet == 2

\* the codeSnippet arrays of the model: numbered, misnumbered and unnumbered lines
Snippets ==
    {Arr(s) : s \in SeqsUpTo({Str(<<"5", ": ", "const a">>),
                              Str(<<"6", ": ", "const b">>),
                              Str(<<"7", ": ", "const x", ": ", "number">>),
                              Str(<<"key", ": ", "value">>),
                              Str(<<"return a">>)},
                             MaxSnippet)}

\* the lines fields of the model
LinesFields ==
    {Undef, Str(<<"5", "-", "6">>), Str(<<"5", "-", "5">>), Str(<<"0", "-", "3">>),
     Str(<<"5">>), Str(<<"five", "-", "six">>)}

\* the elements handed to validateAndCleanCodeChanges
CleanInputs ==
    {Strip(Obj([type |-> type, file |-> S("src/app.ts"), lines |-> lines,
                explanation |-> S("Adds foo"), codeSnippet |-> codeSnippet]),
           {"type", "file", "lines", "explanation", "codeSnippet"}) :
        type \in {S("New Feature"), S("Chore"), S("Bugfix"), Undef},
        lines \in LinesFields,
        codeSnippet \in Snippets \cup {Undef, S("const a")}}

\* the values handed to validateAndCleanReactConcept
ConceptCleanInputs ==
    {Strip(Obj([concept |-> S("useState"), lines |-> lines, codeSnippet |-> codeSnippet]),
           {"concept", "lines", "codeSnippet"}) :
        lines \in LinesFields, codeSnippet \in Snippets \cup {Undef}} \cup {Undef}

InitCalls ==
    /\ prismaUp = TRUE
    /\ apiKey = TRUE
    /\ commitTable = {}
    /\ repoTable = {}
    /\ cacheTable = {}
    /\ clock = 0
    /\ nextId = 1
    /\ req = [r \in Procs |-> IdleReq]
    /\ last = NoLast
    /\ sim = NoSim
    /\ LET Ready(op, arg) == [pc |-> "ready", op |-> op, arg |-> arg, out |-> Null]
       IN  \/ \E arg \in ParsedResponses : call = Ready("validate", arg)
           \/ \E arg \in SeqsUpTo({"Here is the analysis:", "'''json", "'''", "{", "}", "ok"},
                                  MaxTextLen) : call = Ready("extract", arg)
           \/ \E arg \in SortInputs : call = Ready("sort", arg)
           \/ \E arg \in CleanInputs : call = Ready("clean", <<arg>>)
           \/ \E arg \in ConceptCleanInputs : call = Ready("concept", arg)
           \/ \E arg \in SegmentLists : call = Ready("reduce", arg)

Sort == Returns("sort", sortCodeChanges(call.arg))

Clean == Returns("clean", validateAndCleanCodeChanges(call.arg))

CleanConcept == Returns("concept", validateAndCleanReactConcept(call.arg))

Reduce == Returns("reduce", ReduceDiff(LinesOf(call.arg)))

NextCalls == Validate \/ Extract \/ Sort \/ Clean \/ CleanConcept \/ Reduce

SpecCalls == InitCalls /\ [][NextCalls]_vars

-----------------------------------------------------------------------------
(* Properties *)

Events(rec) == {rec.trace[i] : i \in 1..Len(rec.trace)}

\* generateAnalysis has returned to GET
Generated(rec) ==
    \/ rec.pc \in {"upsertRepo", "save"}
    \/ rec.pc = "done" /\ rec.analysis # Null

ModelEvents == {"model", "modelError"}
HitEvents == {"exactHit", "similarHit"}
ExactEvents == {"exact", "exactError"}
SimilarEvents == {"similar", "similarError"}

StructurallyComplete(a) ==
    /\ IsObj(a)
    /\ IsArr(Get(a, "codeChanges"))
    /\ IsObj(Get(a, "architectureDiagram"))
    /\ Get(Get(a, "architectureDiagram"), "diagram") # Undef
    /\ Get(Get(a, "architectureDiagram"), "explanation") # Undef
    /\ IsObj(Get(a, "reactConcept"))
    /\ Get(Get(a, "reactConcept"), "concept") # Undef
    /\ Get(Get(a, "reactConcept"), "codeSnippet") # Undef
    /\ Get(Get(a, "reactConcept"), "explanation") # Undef

\* the answers of the model that carry no usable analysis: no text, no JSON, a
\* JSON value that is no object, a shape the repair cannot mend
FailTexts ==
    {<<>>,
     <<"I cannot analyze this diff.">>,
     <<"{", "ok">>,
     <<"7">>,
     <<"{", "nullchange", "}">>,
     <<"{", "numdiagram", "}">>,
     <<"{", "badsnippet", "}">>}

TextOf(rec) == rec.completion.content[1].text

FailurePath(rec) ==
    /\ Events(rec) \cap HitEvents = {}
    /\ \/ Events(rec) \cap ModelEvents = {}
       \/ "modelError" \in Events(rec)
       \/ "model" \in Events(rec) /\ TextOf(rec) \in FailTexts

\* C1: generateAnalysis always returns a structurally complete analysis (a
\* codeChanges array, an architectureDiagram with diagram and explanation, a
\* reactConcept with concept, codeSnippet and explanation), whatever the model
\* and the cache store do; when the run got no analysis from the cache or from
\* the model (no API key, nothing left of the diff, API error, empty text, no
\* JSON object, a shape the repair cannot mend) the result is exactly
\* DEFAULT_ANALYSIS.
C1_GenerateAnalysisTotal ==
    \A r \in Procs :
        Generated(req[r]) =>
            /\ StructurallyComplete(req[r].analysis)
            /\ FailurePath(req[r]) => req[r].analysis = DEFAULT_ANALYSIS

C1_Witness ==
    \E r \in Procs :
        /\ req[r].pc = "upsertRepo"
        /\ "model" \in Events(req[r])
        /\ TextOf(req[r]) = <<"{", "badsnippet", "}">>
        /\ req[r].analysis = DEFAULT_ANALYSIS

\* C2: a request with force=true is never answered from the persisted record,
\* and whenever its diff is fetched and filters to a non-empty text it invokes
\* the model and never returns an analysis taken from an exact or a similar
\* cache entry.
C2_ForceBypassesCaches ==
    \A r \in Procs :
        /\ (req[r].force /\ req[r].pc = "done" /\ ~req[r].response.error)
              => "saved" \in Events(req[r])
        /\ (/\ req[r].force
            /\ apiKey
            /\ Generated(req[r])
            /\ ~JoinIsEmpty(FilterDiff(req[r].diff)))
           => /\ Events(req[r]) \cap ModelEvents # {}
              /\ Events(req[r]) \cap HitEvents = {}

\* the request found a persisted record with non-empty codeChanges and did
\* not ask for regeneration
FoundStored(rec) ==
    /\ rec.pc = "done"
    /\ ~rec.force
    /\ rec.existing # Null
    /\ Len(rec.existing.o.codeChanges.a) > 0

\* C3 as claimed: a force=false request that found a persisted record with
\* non-empty codeChanges ends by returning that record's analysis with
\* error=false, without diff fetch, model call or write, whatever the GitHub
\* commit lookup does.
C3_Original ==
    \A r \in Procs :
        FoundStored(req[r]) =>
            /\ req[r].response.error = FALSE
            /\ req[r].response.analysis = AnalysisOfRow(req[r].existing.o)
            /\ Events(req[r]) = {}

\* C3 as amended: such a request never fetches the diff, calls the model or
\* writes the cache or the persisted record; it returns the record's analysis
\* with error=false when the GitHub commit lookup returns the commit, and
\* DEFAULT_ANALYSIS with error=true when that lookup throws or returns nothing.
C3_ServedFromRecord ==
    \A r \in Procs :
        FoundStored(req[r]) =>
            /\ Events(req[r]) \subseteq {"commitFailed"}
            /\ req[r].analysis = Null
            /\ "commitFailed" \notin Events(req[r]) =>
                  req[r].response = Response(200, FALSE, Null, AnalysisOfRow(req[r].existing.o))
            /\ "commitFailed" \in Events(req[r]) =>
                  /\ req[r].response.error
                  /\ req[r].response.analysis = DEFAULT_ANALYSIS

C3_Witness ==
    \E r \in Procs :
        /\ FoundStored(req[r])
        /\ req[r].response.status = 200
        /\ req[r].response.analysis # DEFAULT_ANALYSIS
        /\ cacheTable # {}

PartsPresent(a) ==
    /\ IsObj(a)
    /\ \A k \in {"codeChanges", "architectureDiagram", "reactConcept"} :
          Get(a, k) \notin {Undef, Null}

\* C4: every response of GET, error responses included, is a body with an
\* error flag, a details field (a message with error=true, null otherwise) and
\* an analysis in which codeChanges, architectureDiagram and reactConcept are
\* present; the handler ends with status 200 or 500, never with an exception.
C4_EnvelopeAlways ==
    \A r \in Procs :
        req[r].pc = "done" =>
            /\ req[r].response.error \in BOOLEAN
            /\ req[r].response.status = IF req[r].response.error THEN 500 ELSE 200
            /\ IF req[r].response.error THEN IsStr(req[r].response.details)
               ELSE req[r].response.details = Null
            /\ PartsPresent(req[r].response.analysis)

C4_Witness ==
    \E r \in Procs :
        /\ req[r].pc = "done"
        /\ "saveFailed" \in Events(req[r])
        /\ req[r].response.error
        /\ req[r].response.analysis # DEFAULT_ANALYSIS

\* the request before this one ended
HadPrevious == last.response.status # 0

\* C5 as claimed: of two force=false calls in sequence with the diff
\* unchanged, GitHub and the record query answering both and the stores
\* answering the second, the second returns the analysis the first returned
\* and does not invoke the model, for every model response and store outcome
\* of the first.
C5_Original ==
    \A r \in Procs :
        (/\ HadPrevious
         /\ req[r].pc = "done"
         /\ ~req[r].force /\ ~last.force
         /\ last.diff # <<>>
         /\ req[r].diff \in {<<>>, last.diff}
         /\ ~req[r].response.error
         /\ Events(req[r]) \cap {"queryFailed", "commitFailed", "exactError", "similarError",
                                 "cacheFailed", "saveFailed"} = {})
        => /\ req[r].response.analysis = last.response.analysis
           /\ Events(req[r]) \cap ModelEvents = {}

\* C5 as amended: when the first of two force=false calls in sequence ended
\* with error=false and non-empty codeChanges, and the record query and the
\* commit lookup of the second succeed, the second returns the same analysis
\* with error=false from the persisted record, without fetching the diff or
\* invoking the model.
C5_SecondFromRecord ==
    \A r \in Procs :
        (/\ HadPrevious
         /\ req[r].pc = "done"
         /\ ~req[r].force /\ ~last.force
         /\ ~last.response.error
         /\ Len(last.response.analysis.o.codeChanges.a) > 0
         /\ Events(req[r]) \cap {"queryFailed", "commitFailed"} = {})
        => /\ req[r].response = Response(200, FALSE, Null, last.response.analysis)
           /\ Events(req[r]) = {}

C5_Witness ==
    \E r \in Procs :
        /\ HadPrevious
        /\ req[r].pc = "done"
        /\ ~req[r].force /\ ~last.force
        /\ ~last.response.error
        /\ last.diff # <<>>
        /\ last.response.analysis \notin {DEFAULT_ANALYSIS, Payload.ok}
        /\ req[r].response = Response(200, FALSE, Null, last.response.analysis)

\* C6: when the filter leaves nothing of the diff, generateAnalysis returns
\* DEFAULT_ANALYSIS at once: no exact or similar lookup, no model call and no
\* cache write happen in that run.
C6_EmptyFilteredShortCircuits ==
    \A r \in Procs :
        (/\ req[r].pc \notin {"idle", "findExisting", "getCommit", "getDiff", "generate"}
         /\ "getDiff" \in Events(req[r])
         /\ req[r].diff \in Diffs
         /\ JoinIsEmpty(FilterDiff(req[r].diff)))
        => /\ req[r].analysis = DEFAULT_ANALYSIS
           /\ Events(req[r]) \cap (ExactEvents \cup SimilarEvents \cup HitEvents
                                   \cup ModelEvents \cup {"cached", "cacheFailed"}) = {}

C6_Witness ==
    \E r \in Procs :
        /\ req[r].pc = "save"
        /\ apiKey
        /\ req[r].diff = DiffNoise
        /\ req[r].analysis = DEFAULT_ANALYSIS

\* C7: for a diff that touches only package-lock.json the filtered diff is
\* empty and generateAnalysis returns DEFAULT_ANALYSIS without a model call.
C7_LockfileOnlyIsDefault ==
    \A r \in Procs :
        (Generated(req[r]) /\ req[r].diff = DiffLock) =>
            /\ JoinIsEmpty(FilterDiff(req[r].diff))
            /\ req[r].analysis = DEFAULT_ANALYSIS
            /\ Events(req[r]) \cap ModelEvents = {}

ExactRows(rec) ==
    {row \in cacheTable : row.diffHash = generateDiffHash(rec.filteredDiff)}

\* C8: in one run of generateAnalysis the exact lookup comes first, the
\* similarity lookup only after an exact miss, the model only after both
\* missed; an exact lookup that finds the entry is a hit; on a hit the cached
\* entry's analysis is returned and the model is not called, GET goes on to
\* persist it, and a successful save leaves it as the persisted record of the
\* commit and in the response.
C8_LookupOrder ==
    \A r \in Procs :
        LET rec == req[r]
            tr == rec.trace
            ev == Events(rec)
            hit == ev \cap HitEvents # {}
        IN  /\ \A i \in 1..Len(tr) :
                  /\ tr[i] \in SimilarEvents => i > 1 /\ tr[i - 1] \in ExactEvents
                  /\ tr[i] \in ModelEvents =>
                        i > 2 /\ tr[i - 1] \in SimilarEvents /\ tr[i - 2] \in ExactEvents
            /\ ("exact" \in ev /\ ExactRows(rec) # {} /\ "cached" \notin ev) => "exactHit" \in ev
            /\ "exactHit" \in ev =>
                  /\ ev \cap (SimilarEvents \cup ModelEvents) = {}
                  /\ \E row \in ExactRows(rec) : rec.analysis = row.analysis
            /\ "similarHit" \in ev =>
                  /\ ev \cap ModelEvents = {}
                  /\ rec.analysis = findSimilarAnalysis(rec.filteredDiff, cacheTable).o.analysis
            /\ (hit /\ rec.pc # "done") => rec.pc \in {"upsertRepo", "save"}
            /\ (hit /\ "saved" \in ev) =>
                  /\ \E row \in commitTable :
                        row.commitSha = rec.sha /\ AnalysisOfRow(row) = rec.analysis
                  /\ rec.response.analysis = rec.analysis

C8_Witness ==
    \E r \in Procs :
        /\ req[r].pc = "done"
        /\ "similarHit" \in Events(req[r])
        /\ "saved" \in Events(req[r])
        /\ req[r].response.analysis = Payload.ok

\* C9: when the model API call fails, createCompletion returns a response
\* whose single content item is an empty text and whose token counts are 0;
\* generateAnalysis then returns DEFAULT_ANALYSIS and writes no cache entry.
C9_ApiErrorGivesDefault ==
    \A r \in Procs :
        "modelError" \in Events(req[r]) =>
            /\ req[r].completion.content = <<[type |-> "text", text |-> <<>>]>>
            /\ req[r].completion.usage = [input_tokens |-> 0, output_tokens |-> 0]
            /\ req[r].analysis = DEFAULT_ANALYSIS
            /\ req[r].pc # "cachePut"
            /\ Events(req[r]) \cap {"cached", "cacheFailed"} = {}

C9_Witness ==
    \E r \in Procs :
        /\ "modelError" \in Events(req[r])
        /\ req[r].pc = "done"
        /\ "saved" \in Events(req[r])

\* the event after the first occurrence of e, or "" when e is the last one
After(rec, e) ==
    LET i == Min({j \in 1..Len(rec.trace) : rec.trace[j] = e})
    IN  IF i < Len(rec.trace) THEN rec.trace[i + 1] ELSE ""

\* C10: a failing cache store never aborts the pipeline: an error of the exact
\* lookup is handled as a miss (the similarity lookup comes next), an error of
\* the similarity lookup is handled as a miss (the model call comes next), and
\* after a failed cache write (a duplicate key included) the validated
\* analysis is still what generateAnalysis returns and GET goes on to persist.
C10_CacheFailuresAreMisses ==
    \A r \in Procs :
        LET rec == req[r]
            ev == Events(rec)
        IN  /\ "exactError" \in ev =>
                  /\ "exactHit" \notin ev
                  /\ IF After(rec, "exactError") = "" THEN rec.pc = "similar"
                     ELSE After(rec, "exactError") \in SimilarEvents
            /\ "similarError" \in ev =>
                  /\ "similarHit" \notin ev
                  /\ IF After(rec, "similarError") = "" THEN rec.pc = "model"
                     ELSE After(rec, "similarError") \in ModelEvents
            /\ "cacheFailed" \in ev =>
                  /\ rec.analysis = ProcessResponse(rec.completion).analysis
                  /\ AnalysisSchema(rec.analysis)
                  /\ IF After(rec, "cacheFailed") = "" THEN rec.pc \in {"upsertRepo", "save"}
                     ELSE After(rec, "cacheFailed") \in {"saved", "saveFailed", "upsertFailed"}
                  /\ "saved" \in ev => rec.response = Response(200, FALSE, Null, rec.analysis)

C10_Witness ==
    \E r \in Procs :
        /\ req[r].pc = "done"
        /\ {"exactError", "similarError", "cacheFailed", "saved"} \subseteq Events(req[r])
        /\ ExactRows(req[r]) # {}

\* C11: when generateAnalysis has produced an analysis, a later failure of
\* the repository upsert or of the create/update of the commit's record leaves
\* the generated analysis, not DEFAULT_ANALYSIS, in the body of the response.
C11_PersistenceErrorKeepsAnalysis ==
    \A r \in Procs :
        (/\ req[r].pc = "done"
         /\ Events(req[r]) \cap {"upsertFailed", "saveFailed"} # {})
        => req[r].response.analysis = req[r].analysis

\* the run returned an analysis built from the model's response: it passed
\* the schema at once, or after the repair
BuiltFromModel(rec) ==
    /\ Generated(rec)
    /\ "model" \in Events(rec)
    /\ "default" \notin Events(rec)

\* C16: every run of generateAnalysis that returns an analysis built from a
\* model response, valid at once or after the repair, has attempted the cache
\* write for the hash of the filtered diff before returning, and the entry is
\* in the cache unless the store failed.
C16_GeneratedIsCached ==
    \A r \in Procs :
        BuiltFromModel(req[r]) =>
            /\ Events(req[r]) \cap {"cached", "cacheFailed"} # {}
            /\ ExactRows(req[r]) # {} \/ "cacheFailed" \in Events(req[r])

\* the same JavaScript number: both NaN, or the same fraction
SameNumber(a, b) == a.nan = b.nan /\ (a.nan \/ a.num * b.den = b.num * a.den)

\* a term of the score as the claims state it: 0 when both sides are empty
TermOrZero(n, d) == IF d = 0 THEN Frac(0, 1) ELSE Frac(n, d)

\* 0.3*fileSim + 0.2*typeSim + 0.2*countSim + 0.3*mainSim with such terms
WeightedSum(sig1, sig2) ==
    LET f == TermOrZero(Cardinality(sig1.files \cap sig2.files),
                        MaxOf(Cardinality(sig1.files), Cardinality(sig2.files)))
        ty == TermOrZero(Cardinality(sig1.changeTypes \cap sig2.changeTypes),
                         MaxOf(Cardinality(sig1.changeTypes), Cardinality(sig2.changeTypes)))
        c == TermOrZero(MaxOf(sig1.changeCount, sig2.changeCount)
                          - Abs(sig1.changeCount - sig2.changeCount),
                        MaxOf(sig1.changeCount, sig2.changeCount))
        m == TermOrZero(Cardinality(sig1.mainChanges \cap sig2.mainChanges),
                        MaxOf(Cardinality(sig1.mainChanges), Cardinality(sig2.mainChanges)))
    IN  Frac(3 * f.num * ty.den * c.den * m.den
               + 2 * ty.num * f.den * c.den * m.den
               + 2 * c.num * f.den * ty.den * m.den
               + 3 * m.num * f.den * ty.den * c.den,
             10 * f.den * ty.den * c.den * m.den)

\* C17: in calculateDiffSimilarity a term whose two sides are both empty
\* contributes 0: the score is the weighted sum of the four terms with such a
\* term taken as 0, and it is a number between 0 and 1.
C17_EmptyTermIsZero ==
    sim.pc = "done" =>
        /\ ~sim.ab.nan
        /\ SameNumber(sim.ab, WeightedSum(generateDiffSignature(sim.a),
                                          generateDiffSignature(sim.b)))
        /\ ~Greater(Frac(0, 1), sim.ab)
        /\ ~Greater(sim.ab, Frac(1, 1))

\* C18: for every signature S that generateDiffSignature produces, also one
\* with no files, no change types, no changed lines or no declaration lines,
\* calculateDiffSimilarity(S, S) is 1.0, which is above the threshold 0.8.
C18_SelfSimilarityIsOne ==
    sim.pc = "done" =>
        /\ SameNumber(sim.aa, Frac(1, 1))
        /\ Greater(sim.aa, SimilarityThreshold)

\* C19: calculateDiffSimilarity(A, B) and calculateDiffSimilarity(B, A) are
\* the same number for all signatures A and B.
C19_SimilaritySymmetric ==
    sim.pc = "done" => SameNumber(sim.ab, sim.ba)

C19_Witness ==
    /\ sim.pc = "done"
    /\ ~sim.ab.nan
    /\ Greater(sim.ab, Frac(0, 1))
    /\ Greater(Frac(1, 1), sim.ab)
    /\ Cardinality(generateDiffSignature(sim.a).mainChanges)
         # Cardinality(generateDiffSignature(sim.b).mainChanges)

\* the similarity of the query of sim to a cache row
ScoreOf(row) ==
    calculateDiffSimilarity(generateDiffSignature(sim.a), generateDiffSignature(row.diff))

\* the rows that have fewer than RecentLimit newer rows
RecentRows ==
    {row \in cacheTable :
        Cardinality({o \in cacheTable : o.createdAt > row.createdAt}) < RecentLimit}

\* C15: findSimilarAnalysis returns null when no candidate scores strictly
\* above the threshold 0.8; otherwise it returns a candidate that scores
\* strictly above 0.8 and that no other candidate outscores; a candidate that
\* scores exactly 0.8 is never returned.
C15_BestAboveThreshold ==
    sim.pc = "done" =>
        LET qualifying == {row \in RecentRows : Greater(ScoreOf(row), Frac(8, 10))}
        IN  /\ qualifying = {} => sim.found = Null
            /\ qualifying # {} =>
                  /\ sim.found # Null
                  /\ sim.found.o \in qualifying
                  /\ \A o \in RecentRows : ~Greater(ScoreOf(o), ScoreOf(sim.found.o))
            /\ sim.found # Null => ~SameNumber(ScoreOf(sim.found.o), Frac(8, 10))

C15_Witness ==
    /\ sim.pc = "done"
    /\ sim.found = Null
    /\ \E row \in RecentRows : SameNumber(ScoreOf(row), Frac(8, 10))

\* C20: findSimilarAnalysis only returns an entry that is among the 100 most
\* recently created entries of the cache at the time of the lookup, also when
\* an older entry is more similar to the query than every one of those.
C20_OnlyRecentEntries ==
    sim.pc = "done" =>
        \/ sim.found = Null
        \/ sim.found.o \in RecentRows

C20_Witness ==
    /\ sim.pc = "done"
    /\ sim.found = Null
    /\ \E row \in cacheTable \ RecentRows : SameNumber(ScoreOf(row), Frac(1, 1))

\* the request found no persisted record, missed both caches and called the
\* model, and no store operation of it failed for a reason of the store's own
RacedThrough(rec) ==
    /\ rec.pc = "done"
    /\ rec.existing = Null
    /\ "model" \in Events(rec)
    /\ Events(rec) \cap {"exactError", "similarError", "upsertFailed"} = {}
    /\ "saveFailed" \in Events(rec) => "duplicateRecord" \in Events(rec)

\* C12: when two concurrent requests for the same (owner, repo, sha) both find
\* no persisted record, both miss the cache and both invoke the model, both
\* persistence writes are accepted, both requests are answered with
\* error=false, and the persisted record holds the analysis of one of them.
C12_ConcurrentBothAccepted ==
    (\A r \in Procs : RacedThrough(req[r])) =>
        /\ \A r \in Procs : "saved" \in Events(req[r]) /\ ~req[r].response.error
        /\ \E r \in Procs : \E row \in commitTable : AnalysisOfRow(row) = req[r].analysis

C14_CacheAppendOnly ==
    [][\A row \in cacheTable : row \in cacheTable']_vars

C14_Witness ==
    \E r \in Procs, o \in Procs :
        /\ r # o
        /\ {"exact", "similar", "model", "cacheFailed"} \subseteq Events(req[r])
        /\ "cached" \in Events(req[o])
        /\ \E row \in ExactRows(req[r]) :
              row.analysis = req[o].analysis /\ row.createdAt = clock

-----------------------------------------------------------------------------
(* The helpers on their own *)

\* the call of helper op has returned
Called(op) == call.pc = "done" /\ call.op = op

\* v with the member name set to value
With(v, name, value) ==
    Obj([k \in DOMAIN v.o \cup {name} |-> IF k = name THEN value ELSE v.o[k]])

\* the parsed response p has an array of objects as codeChanges
HasChangeObjects(p) ==
    /\ IsArr(Get(p, "codeChanges"))
    /\ \A i \in 1..Len(Get(p, "codeChanges").a) : IsObj(Get(p, "codeChanges").a[i])

\* p fails the schema only by the type of one or more of its code changes
OnlyTypesInvalid(p) ==
    /\ HasChangeObjects(p)
    /\ \E i \in 1..Len(Get(p, "codeChanges").a) :
          ~validateChangeType(Get(Get(p, "codeChanges").a[i], "type"))
    /\ LET cc == Get(p, "codeChanges").a
       IN  AnalysisSchema(With(p, "codeChanges",
               Arr([i \in 1..Len(cc) |->
                       IF validateChangeType(Get(cc[i], "type")) THEN cc[i]
                       ELSE With(cc[i], "type", S("Chore"))])))

\* the type of every code change of the result: its own when valid, else Chore
TypesCoerced(p, a) ==
    LET cc == Get(p, "codeChanges").a
        out == Get(a, "codeChanges").a
    IN  /\ Len(out) = Len(cc)
        /\ \A i \in 1..Len(cc) :
              Get(out[i], "type") = IF validateChangeType(Get(cc[i], "type"))
                                    THEN Get(cc[i], "type") ELSE S("Chore")

\* C21 as stated: a response that is valid but for the type of some code changes
\* is not answered with DEFAULT_ANALYSIS; those changes get type Chore, every
\* change keeps its file, lines, summary and explanation and its place, and
\* architectureDiagram and reactConcept come back unchanged.
C21_Original ==
    (Called("validate") /\ OnlyTypesInvalid(call.arg)) =>
        LET p == call.arg
            a == call.out.analysis
            cc == Get(p, "codeChanges").a
        IN  /\ a # DEFAULT_ANALYSIS
            /\ TypesCoerced(p, a)
            /\ \A i \in 1..Len(cc) : \A f \in {"file", "lines", "summary", "explanation"} :
                  Get(Get(a, "codeChanges").a[i], f) = Get(cc[i], f)
            /\ Get(a, "architectureDiagram") = Get(p, "architectureDiagram")
            /\ Get(a, "reactConcept") = Get(p, "reactConcept")

\* C21: a response that is valid but for the type of some code changes is not
\* answered with DEFAULT_ANALYSIS; those changes get type Chore, the others keep
\* their type, the changes keep their order, and every string of file, lines,
\* summary, explanation, of the diagram's explanation and of the concept's concept
\* and explanation is kept when it is not empty (an empty one is replaced by its
\* placeholder); the diagram text and the concept's codeSnippet are unchanged.
C21_BadTypeBecomesChore ==
    (Called("validate") /\ OnlyTypesInvalid(call.arg)) =>
        LET p == call.arg
            a == call.out.analysis
            cc == Get(p, "codeChanges").a
            Kept(from, to, f) == Get(from, f).s # <<>> => Get(to, f) = Get(from, f)
        IN  /\ a # DEFAULT_ANALYSIS
            /\ TypesCoerced(p, a)
            /\ \A i \in 1..Len(cc) : \A f \in {"file", "lines", "summary", "explanation"} :
                  Kept(cc[i], Get(a, "codeChanges").a[i], f)
            /\ Get(Get(a, "architectureDiagram"), "diagram")
                  = Get(Get(p, "architectureDiagram"), "diagram")
            /\ Kept(Get(p, "architectureDiagram"), Get(a, "architectureDiagram"), "explanation")
            /\ Get(Get(a, "reactConcept"), "codeSnippet")
                  = Get(Get(p, "reactConcept"), "codeSnippet")
            /\ \A f \in {"concept", "explanation"} :
                  Kept(Get(p, "reactConcept"), Get(a, "reactConcept"), f)

\* a repaired response of two changes, one of an unknown type after one of a known type
C21_Witness ==
    /\ Called("validate") /\ OnlyTypesInvalid(call.arg)
    /\ Len(Get(call.arg, "codeChanges").a) = 2
    /\ validateChangeType(Get(Get(call.arg, "codeChanges").a[1], "type"))
    /\ call.out.how = "fixed"
    /\ Get(Get(call.out.analysis, "codeChanges").a[2], "type") = S("Chore")

\* C22: a response that is valid but for a missing diagram text, or one that does
\* not start with "graph TD", comes back with the default diagram text, its own
\* explanation when that is a non-empty string, and its own codeChanges and
\* reactConcept.
C22_DiagramReplacedRestKept ==
    LET p == call.arg
        ad == Get(p, "architectureDiagram")
        d == Get(ad, "diagram")
        whole == With(p, "architectureDiagram", With(ad, "diagram", Get(ADiagram, "diagram")))
        a == call.out.analysis
    IN  ( /\ Called("validate")
          /\ IsObj(ad)
          /\ d = Undef \/ (IsStr(d) /\ ~StartsWith(d.s, <<GraphTD>>))
          /\ AnalysisSchema(whole) ) =>
            /\ Get(Get(a, "architectureDiagram"), "diagram")
                  = Get(Get(DEFAULT_ANALYSIS, "architectureDiagram"), "diagram")
            /\ Get(ad, "explanation").s # <<>> =>
                  Get(Get(a, "architectureDiagram"), "explanation") = Get(ad, "explanation")
            /\ Get(a, "codeChanges") = Get(SchemaOutput(whole), "codeChanges")
            /\ Get(a, "reactConcept") = Get(SchemaOutput(whole), "reactConcept")

\* the repair of p raises: an element of codeChanges is null, or the diagram is
\* neither absent nor a string
RepairRaises(p) ==
    \/ /\ IsArr(Get(p, "codeChanges"))
       /\ \E i \in 1..Len(Get(p, "codeChanges").a) : Get(p, "codeChanges").a[i] = Null
    \/ OptGet(OptGet(p, "architectureDiagram"), "diagram").t = "number"

\* C23: the repaired object is validated once more and returned as that validation
\* gives it; when the repair raises, or the repaired object fails the schema, the
\* result is DEFAULT_ANALYSIS, so the result is DEFAULT_ANALYSIS or satisfies
\* AnalysisSchema.
C23_RepairRevalidatedOnce ==
    Called("validate") =>
        LET p == call.arg
            a == call.out.analysis
        IN  /\ a = DEFAULT_ANALYSIS \/ AnalysisSchema(a)
            /\ RepairRaises(p) => a = DEFAULT_ANALYSIS
            /\ (~AnalysisSchema(p) /\ ~AnalysisSchema(FixedResponse(p))) => a = DEFAULT_ANALYSIS
            /\ call.out.how = "fixed" => a = SchemaOutput(FixedResponse(p))

\* a repair that leaves a reactConcept.codeSnippet that is no array: the second
\* validation fails
C23_Witness ==
    /\ Called("validate")
    /\ ~RepairRaises(call.arg)
    /\ HasChangeObjects(call.arg)
    /\ ~AnalysisSchema(FixedResponse(call.arg))
    /\ call.out.analysis = DEFAULT_ANALYSIS

\* the type of change is one of types
TypeIn(change, types) ==
    IsStr(Get(change, "type")) /\ \E ty \in types : Get(change, "type").s = <<ty>>

SignificantTypes == {"New Feature", "Refactor", "Improvement"}
MaintenanceTypes == {"Chore", "Cleanup", "Config"}

\* b holds the elements of a, each as many times as a does
Permutation(a, b) ==
    /\ Len(a) = Len(b)
    /\ \A i \in 1..Len(a) :
          Cardinality({j \in 1..Len(a) : a[j] = a[i]}) = Cardinality({j \in 1..Len(b) : b[j] = a[i]})

\* every significant change of seq stands before every maintenance change
SignificantFirst(seq) ==
    \A i \in 1..Len(seq), j \in 1..Len(seq) :
        (TypeIn(seq[i], SignificantTypes) /\ TypeIn(seq[j], MaintenanceTypes)) => i < j

\* the place of the type of change in the order New Feature, Refactor, Improvement,
\* Chore, Cleanup, Config, with every other type after them
TypeRank(change) ==
    LET ranked == <<"New Feature", "Refactor", "Improvement", "Chore", "Cleanup", "Config">>
    IN  IF \E k \in 1..Len(ranked) : TypeIn(change, {ranked[k]})
        THEN CHOOSE k \in 1..Len(ranked) : TypeIn(change, {ranked[k]})
        ELSE Len(ranked) + 1

\* C24 as stated: sortCodeChanges returns a permutation with the significant types
\* before the maintenance types, and the changes of one tier in their input order.
C24_Original ==
    Called("sort") =>
        /\ Permutation(call.arg, call.out)
        /\ SignificantFirst(call.out)
        /\ \A tier \in {SignificantTypes, MaintenanceTypes} :
              SelectSeq(call.out, LAMBDA c : TypeIn(c, tier))
                  = SelectSeq(call.arg, LAMBDA c : TypeIn(c, tier))

\* C24: sortCodeChanges returns a permutation of its input ordered by type (New
\* Feature, Refactor, Improvement, Chore, Cleanup, Config, then any other type), so
\* the significant types come before the maintenance types, and the changes of one
\* type keep their input order.
C24_SortedByTypeStable ==
    Called("sort") =>
        /\ Permutation(call.arg, call.out)
        /\ SignificantFirst(call.out)
        /\ \A i \in 1..Len(call.out), j \in 1..Len(call.out) :
              i < j => TypeRank(call.out[i]) <= TypeRank(call.out[j])
        /\ \A c \in {call.arg[i] : i \in 1..Len(call.arg)} :
              SelectSeq(call.out, LAMBDA o : Get(o, "type") = Get(c, "type"))
                  = SelectSeq(call.arg, LAMBDA o : Get(o, "type") = Get(c, "type"))

\* three changes that the sort reorders, two of them of one type
C24_Witness ==
    /\ Called("sort")
    /\ Len(call.arg) = 3
    /\ call.out # call.arg
    /\ \E i \in 1..3, j \in 1..3 :
          i < j /\ call.arg[i] # call.arg[j]
                /\ Get(call.arg[i], "type") = Get(call.arg[j], "type")

\* the snippet lines carry the numbers start, start + 1, ... up to end at most
NumberedWithin(codeSnippet, start, end) ==
    \A k \in 1..Len(codeSnippet.a) :
        /\ StartsWith(codeSnippet.a[k].s, <<ToString(start + k - 1), ": ">>)
        /\ start + k - 1 <= end

\* lines reads start-end and the snippet is numbered within that range
WellNumbered(change) ==
    /\ IsArr(Get(change, "codeSnippet"))
    /\ IsStr(Get(change, "lines"))
    /\ \E start \in 0..MaxLineNumber, end \in 0..MaxLineNumber :
          /\ Get(change, "lines").s = <<ToString(start), "-", ToString(end)>>
          /\ NumberedWithin(Get(change, "codeSnippet"), start, end)

C26_SnippetInvariant ==
    Called("clean") =>
        \A i \in 1..Len(call.out) :
            Get(call.out[i], "codeSnippet") # Undef =>
                /\ TypeIn(call.out[i], SignificantTypes)
                /\ WellNumbered(call.out[i])

\* a snippet that was numbered past the end of its range, returned renumbered
C26_Witness ==
    /\ Called("clean")
    /\ TypeIn(call.arg[1], SignificantTypes)
    /\ Get(call.arg[1], "lines") = Str(<<"5", "-", "5">>)
    /\ IsArr(Get(call.arg[1], "codeSnippet"))
    /\ Len(Get(call.arg[1], "codeSnippet").a) = 2
    /\ StartsWith(Get(call.arg[1], "codeSnippet").a[1].s, <<"5", ": ">>)
    /\ Len(Get(call.out[1], "codeSnippet").a) = 2
    /\ Get(call.out[1], "lines") = Str(<<"5", "-", "6">>)

\* the code text of a snippet line: what follows its number prefix, or all of it
CodeText(line) ==
    IF /\ Len(line.s) >= 2
       /\ line.s[2] = ": "
       /\ \E n \in 0..MaxLineNumber : ToString(n) = line.s[1]
    THEN SubSeq(line.s, 3, Len(line.s))
    ELSE line.s

\* C30: a renumbered snippet has as many lines as before, and each line is the new
\* number prefix followed by the whole code text of the input line.
C30_RenumberKeepsCode ==
    LET in == IF call.op = "clean" THEN call.arg[1] ELSE call.arg
        out == IF call.op = "clean" THEN call.out[1] ELSE call.out
        before == Get(in, "codeSnippet")
        after == Get(out, "codeSnippet")
    IN  ( /\ Called("clean") \/ Called("concept")
          /\ IsArr(OptGet(in, "codeSnippet"))
          /\ IsArr(after)
          /\ after # before ) =>
            /\ Len(after.a) = Len(before.a)
            /\ \A k \in 1..Len(after.a) :
                  after.a[k].s = <<ToString(StartOf(Get(out, "lines")) + k - 1), ": ">>
                                     \o CodeText(before.a[k])

\* the text from the first "{" of text to its last "}"
OuterBraces(text) ==
    SubSeq(text, Min(Positions(text, "{")), Max(Positions(text, "}")))

\* text holds one JSON object, inside a fence labelled json, and no other brace
FencedObject(text) ==
    /\ Positions(text, "{") # {} /\ Positions(text, "}") # {}
    /\ JSONParse(OuterBraces(text)).ok
    /\ \E f \in Positions(text, "'''json"), g \in Positions(text, "'''") :
          f < Min(Positions(text, "{")) /\ Max(Positions(text, "}")) < g

\* C27: of a text with one JSON object in a json fence and no brace outside it,
\* JSON.parse gets the text from the first "{" to the last "}" and gives the inner
\* object; whenever a "{" is followed by a "}" the text between the outermost
\* braces is taken, not the interior of a fence.
C27_FencedObjectExtracted ==
    Called("extract") =>
        /\ FencedObject(call.arg) =>
              /\ call.out.handed
              /\ call.out.jsonStr = OuterBraces(call.arg)
              /\ call.out.parsed = JSONParse(OuterBraces(call.arg))
              /\ call.out.parsed.ok
        /\ (\E i \in Positions(call.arg, "{"), j \in Positions(call.arg, "}") : i < j) =>
              call.out.jsonStr = OuterBraces(call.arg)

\* prose, then the object {ok} in a json fence
C27_Witness ==
    /\ Called("extract")
    /\ FencedObject(call.arg)
    /\ Len(call.arg) = MaxTextLen
    /\ call.arg[1] = "'''json"
    /\ call.out.parsed.value = Payload.ok

\* the lines of text that are not empty
TextLines(text) == SelectSeq(Split(text, "\n"), LAMBDA line : line # <<>>)

\* the segment is of a file under src/ or of a .ts, .tsx or .js file
TouchesSource(segment) ==
    LET header == segment[1]
    IN  \/ header[3] = "src/"
        \/ \E i \in 1..Len(header) : header[i] \in {".ts", ".tsx", ".js"}

\* C28: a meaningful diff within TOKEN_LIMIT is sent on as it is; a longer one is
\* cut down to at most 3 of its file segments, in their order, each of a file under
\* src/ or of a .ts, .tsx or .js file, and each still headed by its "diff --git"
\* line.
C28_ReduceKeepsHeadedSegments ==
    Called("reduce") =>
        LET Meaningful(segments) == SelectSeq(LinesOf(segments), IsMeaningful)
            whole == Join(Meaningful(call.arg), "\n")
        IN  IF estimateTokenCount(whole) <= TOKEN_LIMIT
            THEN call.out = whole
            ELSE \E chosen \in SUBSET {i \in 1..Len(call.arg) : TouchesSource(call.arg[i])} :
                    /\ Cardinality(chosen) <= 3
                    /\ TextLines(call.out)
                          = Meaningful(SelectSeq([i \in 1..Len(call.arg) |->
                                                      IF i \in chosen THEN call.arg[i] ELSE <<>>],
                                                 LAMBDA segment : segment # <<>>))

\* the request before this one ended with 200 and DEFAULT_ANALYSIS as its analysis
LastStoredDefault ==
    /\ HadPrevious
    /\ last.response = Response(200, FALSE, Null, DEFAULT_ANALYSIS)

\* C29: once a request has ended with 200 and DEFAULT_ANALYSIS, the record of the
\* commit holds the codeChanges of DEFAULT_ANALYSIS, and a following force=false
\* request leaves the record alone, never fetches the diff or calls the model, and
\* ends with DEFAULT_ANALYSIS as its analysis.
C29_DefaultIsPersistedAndServed ==
    \A r \in Procs :
        (LastStoredDefault /\ req[r].pc # "idle" /\ ~req[r].force) =>
            /\ \E row \in commitTable :
                  /\ row.commitSha = req[r].sha
                  /\ row.codeChanges = Get(DEFAULT_ANALYSIS, "codeChanges")
                  /\ Len(row.codeChanges.a) > 0
            /\ req[r].pc \in {"findExisting", "getCommit", "done"}
            /\ Events(req[r]) \subseteq {"queryFailed", "commitFailed"}
            /\ req[r].pc = "done" => req[r].response.analysis = DEFAULT_ANALYSIS

\* after a request whose model answer could not be parsed was saved, the next
\* force=false request is answered from the record
C29_Witness ==
    \E r \in Procs :
        /\ LastStoredDefault
        /\ last.diff = DiffA
        /\ ~last.force
        /\ apiKey
        /\ req[r].pc = "done" /\ ~req[r].force
        /\ req[r].response = Response(200, FALSE, Null, DEFAULT_ANALYSIS)
        /\ Events(req[r]) = {}

====
